---- MODULE Spec2Model ----
(***************************************************************************)
(* skin2schematic: the scene graph (Node, BoxPart), the rig factory, the   *)
(* pose applicator and the inverse-mapping rasterizer, as state machines.  *)
(*                                                                         *)
(* Lengths (origins, sizes, translations, points) are integers in units    *)
(* of 1/K block with K = 1000, so that the rasterizer's epsilon = 0.001 is *)
(* exactly 1 and half-block voxel centres are exact.  Rotations are Euler  *)
(* angles in degrees; the matrices are evaluated exactly for multiples of  *)
(* 90 degrees (cos and sin in {-1, 0, 1}).  Texture coordinates and voxel  *)
(* coordinates are plain integers.                                         *)
(***************************************************************************)
EXTENDS Integers, Sequences, FiniteSets, TLC

VARIABLES
    nodes,        \* the heap of Node / BoxPart objects: id -> object
    root,         \* Rig.root (id), None when no rig is built
    parts,        \* Rig.parts: the list of BoxPart ids handed to rasterize
    model,        \* model_type given to create_rig
    pose,         \* pose_data: the dict as its list of <<name, data>> items
    pidx,         \* apply_pose: index of the next item of pose_data
    warned,       \* apply_pose: the unknown part names it printed
    skin,         \* the texture given to rasterize
    solid,        \* rasterize's solid flag
    sorted_parts, \* rasterize: sorted(parts, key=is_overlay)
    grid,         \* rasterize: x_range, y_range, z_range
    volume_colors,\* rasterize: the (N, 4) RGBA buffer, by flat voxel index
    kidx,         \* rasterize: index of the next part of sorted_parts
    blocks,       \* rasterize: the returned list of PixelBlocks
    last,         \* the last Node operation performed (scene-graph runs)
    bind,         \* history: the heap as create_rig returned it
    batch,        \* main: the batch's files, cache, counters and job results
    proc,         \* process_skin: its arguments, locals and what it has called
    pc            \* control state

vars == <<nodes, root, parts, model, pose, pidx, warned, skin, solid,
          sorted_parts, grid, volume_colors, kidx, blocks, last, bind, batch,
          proc, pc>>

\* 1 / epsilon: the number of length units per block.
K == 1000

\* Python's None for a node reference (ids start at 1).
None == 0

V3(x, y, z) == <<x * K, y * K, z * K>>

InSeq(x, s) == \E i \in 1..Len(s) : s[i] = x

Count(x, s) == Cardinality({i \in 1..Len(s) : s[i] = x})

SeqSet(s) == {s[i] : i \in 1..Len(s)}

Min2(a, b) == IF a <= b THEN a ELSE b

Max2(a, b) == IF a >= b THEN a ELSE b

SetMin(S) == CHOOSE m \in S : \A x \in S : m <= x

SetMax(S) == CHOOSE m \in S : \A x \in S : m >= x

\* dict.get(key, default)
Get(d, key, default) == IF key \in DOMAIN d THEN d[key] ELSE default

(***************************************************************************)
(* Matrix helpers (primitives.py).  A matrix is a 16-tuple, row major;     *)
(* index i of the code is index i + 1 here.  The rotation block holds      *)
(* plain integers, the translation column holds lengths (units of 1/K).    *)
(***************************************************************************)
identity_matrix == <<1, 0, 0, 0,  0, 1, 0, 0,  0, 0, 1, 0,  0, 0, 0, 1>>

multiply_matrix(a, b) ==
    LET res(i) ==
            LET row == (i - 1) \div 4
                col == (i - 1) % 4
            IN  a[row * 4 + 1] * b[col + 1] + a[row * 4 + 2] * b[4 + col + 1]
              + a[row * 4 + 3] * b[8 + col + 1] + a[row * 4 + 4] * b[12 + col + 1]
    IN  <<res(1), res(2), res(3), res(4), res(5), res(6), res(7), res(8),
          res(9), res(10), res(11), res(12), res(13), res(14), res(15), res(16)>>

translation_matrix(x, y, z) ==
    <<1, 0, 0, x,  0, 1, 0, y,  0, 0, 1, z,  0, 0, 0, 1>>

\* math.cos(math.radians(a)) and math.sin(math.radians(a)), exact, for the
\* multiples of 90 degrees (no other angle is evaluated).
cosd(a) == CASE a % 360 = 0 -> 1 [] a % 360 = 90 -> 0
             [] a % 360 = 180 -> -1 [] a % 360 = 270 -> 0

sind(a) == CASE a % 360 = 0 -> 0 [] a % 360 = 90 -> 1
             [] a % 360 = 180 -> 0 [] a % 360 = 270 -> -1

rotation_matrix(rx, ry, rz) ==
    LET cx == cosd(rx)  sx == sind(rx)
        cy == cosd(ry)  sy == sind(ry)
        cz == cosd(rz)  sz == sind(rz)
        mx == <<1, 0, 0, 0,  0, cx, -sx, 0,  0, sx, cx, 0,  0, 0, 0, 1>>
        my == <<cy, 0, sy, 0,  0, 1, 0, 0,  -sy, 0, cy, 0,  0, 0, 0, 1>>
        mz == <<cz, -sz, 0, 0,  sz, cz, 0, 0,  0, 0, 1, 0,  0, 0, 0, 1>>
    IN  multiply_matrix(mz, multiply_matrix(my, mx))

\* The inverse with the rotation block copied instead of transposed: a
\* variant used to test the claims.
invert_affine_untransposed(m) ==
    LET tx == m[4]  ty == m[8]  tz == m[12]
    IN  <<m[1], m[2], m[3],  -(m[1] * tx + m[2] * ty + m[3] * tz),
          m[5], m[6], m[7],  -(m[5] * tx + m[6] * ty + m[7] * tz),
          m[9], m[10], m[11], -(m[9] * tx + m[10] * ty + m[11] * tz),
          0, 0, 0, 1>>

invert_affine_matrix(m) ==
    LET tx == m[4]  ty == m[8]  tz == m[12]
    IN  <<m[1], m[5], m[9],  -(m[1] * tx + m[5] * ty + m[9] * tz),
          m[2], m[6], m[10], -(m[2] * tx + m[6] * ty + m[10] * tz),
          m[3], m[7], m[11], -(m[3] * tx + m[7] * ty + m[11] * tz),
          0, 0, 0, 1>>

transform_point(m, x, y, z) ==
    << m[1] * x + m[2] * y + m[3] * z + m[4],
       m[5] * x + m[6] * y + m[7] * z + m[8],
       m[9] * x + m[10] * y + m[11] * z + m[12] >>

(***************************************************************************)
(* Scene graph (primitives.py).  The heap h is the sequence of the objects *)
(* constructed so far; an object's id is its index.                        *)
(***************************************************************************)
add_child(h, self, child) ==
    IF ~InSeq(child, h[self].children)
    THEN [h EXCEPT ![self].children = Append(@, child), ![child].parent = self]
    ELSE h

\* Node.__init__: the heap with the new object appended (its id is Len + 1).
Node(h, name, parent) ==
    LET self == Len(h) + 1
        h1 == Append(h, [name |-> name, parent |-> parent, children |-> <<>>,
                         origin |-> <<0, 0, 0>>, rotation |-> <<0, 0, 0>>,
                         scale |-> 1])
    IN  IF parent # None THEN add_child(h1, parent, self) ELSE h1

\* BoxPart.__init__
BoxPart(h, name, size, uv_map, parent, is_overlay) ==
    LET h1 == Node(h, name, parent)
        self == Len(h1)
    IN  [h1 EXCEPT ![self] = @ @@ [size |-> size, uv_map |-> uv_map,
                                   is_overlay |-> is_overlay]]

IsBoxPart(h, n) == "size" \in DOMAIN h[n]

\* node.origin = (x, y, z)
set_origin(h, n, o) == [h EXCEPT ![n].origin = o]

\* The local matrix composed as R * T: a variant used to test the claims.
get_local_matrix_rt(h, n) ==
    multiply_matrix(
        rotation_matrix(h[n].rotation[1], h[n].rotation[2], h[n].rotation[3]),
        translation_matrix(h[n].origin[1], h[n].origin[2], h[n].origin[3]))

get_local_matrix(h, n) ==
    multiply_matrix(
        translation_matrix(h[n].origin[1], h[n].origin[2], h[n].origin[3]),
        rotation_matrix(h[n].rotation[1], h[n].rotation[2], h[n].rotation[3]))

RECURSIVE get_world_matrix(_, _)
get_world_matrix(h, n) ==
    LET local == get_local_matrix(h, n)
    IN  IF h[n].parent # None
        THEN multiply_matrix(get_world_matrix(h, h[n].parent), local)
        ELSE local

world_to_local_point(h, n, wx, wy, wz) ==
    transform_point(invert_affine_matrix(get_world_matrix(h, n)), wx, wy, wz)

\* BoxPart.get_aabb_world: <<min corner, max corner>>
get_aabb_world(h, n) ==
    LET w == h[n].size[1]  hh == h[n].size[2]  d == h[n].size[3]
        corners == {<<0, 0, 0>>, <<w, 0, 0>>, <<0, hh, 0>>, <<0, 0, d>>,
                    <<w, hh, 0>>, <<w, 0, d>>, <<0, hh, d>>, <<w, hh, d>>}
        world_mat == get_world_matrix(h, n)
        ws == {transform_point(world_mat, c[1], c[2], c[3]) : c \in corners}
    IN  << <<SetMin({p[1] : p \in ws}), SetMin({p[2] : p \in ws}),
             SetMin({p[3] : p \in ws})>>,
           <<SetMax({p[1] : p \in ws}), SetMax({p[2] : p \in ws}),
             SetMax({p[3] : p \in ws})>> >>

\* Python's None for an Optional[Tuple[int, int]].
NoCoord == <<>>

\* int(x) of a length x: truncation toward zero, in blocks.
int(x) == IF x >= 0 THEN x \div K ELSE -((-x) \div K)

Abs(x) == IF x >= 0 THEN x ELSE -x

\* BoxPart.get_texture_coord of the part object part: <<u, v>> or NoCoord.
\* Its epsilon is 0.001, one length unit.
get_texture_coord(part, lx, ly, lz) ==
    LET w == part.size[1]  h == part.size[2]  d == part.size[3]
        eps == K \div 1000
        on_left == Abs(lx) < eps
        on_right == Abs(lx - w) < eps
        on_bottom == Abs(ly) < eps
        on_top == Abs(ly - h) < eps
        on_front == Abs(lz) < eps
        on_back == Abs(lz - d) < eps
        target_face ==
            IF on_top THEN "top" ELSE IF on_bottom THEN "bottom"
            ELSE IF on_right THEN "right" ELSE IF on_left THEN "left"
            ELSE IF on_front THEN "front" ELSE IF on_back THEN "back"
            ELSE "None"
        u_off == IF target_face \in {"top", "bottom", "front", "back"}
                 THEN lx ELSE lz
        v_off == IF target_face \in {"top", "bottom"} THEN lz ELSE h - ly
    IN  IF ~(/\ -eps <= lx /\ lx <= w + eps
             /\ -eps <= ly /\ ly <= h + eps
             /\ -eps <= lz /\ lz <= d + eps)
        THEN NoCoord
        ELSE IF target_face # "None" /\ target_face \in DOMAIN part.uv_map
        THEN LET rect == part.uv_map[target_face]
                 iu_off == int(u_off)
                 iv_off == int(v_off)
             IN  IF 0 <= iu_off /\ iu_off < rect[3]
                    /\ 0 <= iv_off /\ iv_off < rect[4]
                 THEN <<rect[1] + iu_off, rect[2] + iv_off>>
                 ELSE NoCoord
        ELSE NoCoord

(***************************************************************************)
(* Rig factory (rig.py).                                                   *)
(***************************************************************************)
_create_box_uv(u, v, w, h, d) ==
    [top    |-> <<u + d, v, w, d>>,
     bottom |-> <<u + d + w, v, w, d>>,
     right  |-> <<u, v + d, d, h>>,
     front  |-> <<u + d, v + d, w, h>>,
     left   |-> <<u + d + w, v + d, d, h>>,
     back   |-> <<u + d + w + d, v + d, w, h>>]

arm_width(model_type) == IF model_type = "slim" THEN 3 ELSE 4

\* The object ids create_rig hands out, in construction order.
RootId == 1
BodyJointId == 2
HeadJointId == 3
RightArmJointId == 4
LeftArmJointId == 5
RightLegJointId == 6
LeftLegJointId == 7
HeadId == 8
HatId == 9
RightArmId == 10
RightSleeveId == 11
LeftArmId == 12
LeftSleeveId == 13
RightLegId == 14
RightPantsId == 15
LeftLegId == 16
LeftPantsId == 17
BodyId == 18
JacketId == 19

\* priority_parts, in the order of the append calls.
priority_parts ==
    <<HeadId, HatId, RightArmId, RightSleeveId, LeftArmId, LeftSleeveId,
      RightLegId, RightPantsId, LeftLegId, LeftPantsId, BodyId, JacketId>>

\* pivot_y_local, with the classic arm width for both models in the
\* variant used to test the claims.
pivot_y_local_classic(arm_w) == 12 - 4

pivot_y_local(arm_w) == 12 - arm_w

\* RigFactory.create_rig, statement by statement: each row is one
\* Node(...) or BoxPart(...) call and the assignment to .origin after it
\* (the root's origin is not assigned).
rig_statements(model_type) ==
    LET arm_w == arm_width(model_type)
        piv == pivot_y_local(arm_w)
        joint(name, parent, o) ==
            [cls |-> "Node", name |-> name, parent |-> parent,
             assigns |-> TRUE, origin |-> o]
        box(name, size, uv, parent, ov, o) ==
            [cls |-> "BoxPart", name |-> name, parent |-> parent,
             size |-> size, uv_map |-> uv, is_overlay |-> ov,
             assigns |-> TRUE, origin |-> o]
    IN  << [cls |-> "Node", name |-> "root", parent |-> None,
            assigns |-> FALSE, origin |-> <<0, 0, 0>>],
           joint("BodyJoint", RootId, V3(0, 12, 0)),
           joint("HeadJoint", BodyJointId, V3(0, 12, 0)),
           joint("RightArmJoint", BodyJointId, V3(4, piv, 0)),
           joint("LeftArmJoint", BodyJointId, V3(-4, piv, 0)),
           joint("RightLegJoint", BodyJointId, V3(2, 0, 0)),
           joint("LeftLegJoint", BodyJointId, V3(-2, 0, 0)),
           box("Head", V3(8, 8, 8), _create_box_uv(0, 0, 8, 8, 8),
               HeadJointId, FALSE, V3(-4, 0, -4)),
           box("Hat", V3(10, 10, 10), _create_box_uv(32, 0, 8, 8, 8),
               HeadJointId, TRUE, V3(-5, -1, -5)),
           box("RightArm", V3(arm_w, 12, 4), _create_box_uv(40, 16, arm_w, 12, 4),
               RightArmJointId, FALSE, V3(0, arm_w - 12, -2)),
           box("RightSleeve", V3(arm_w + 2, 14, 6),
               _create_box_uv(40, 32, arm_w, 12, 4),
               RightArmJointId, TRUE, V3(-1, arm_w - 12 - 1, -3)),
           box("LeftArm", V3(arm_w, 12, 4), _create_box_uv(32, 48, arm_w, 12, 4),
               LeftArmJointId, FALSE, V3(-arm_w, arm_w - 12, -2)),
           box("LeftSleeve", V3(arm_w + 2, 14, 6),
               _create_box_uv(48, 48, arm_w, 12, 4),
               LeftArmJointId, TRUE, V3(-arm_w - 1, arm_w - 12 - 1, -3)),
           box("RightLeg", V3(4, 12, 4), _create_box_uv(0, 16, 4, 12, 4),
               RightLegJointId, FALSE, V3(-2, -12, -2)),
           box("RightPants", V3(6, 14, 6), _create_box_uv(0, 32, 4, 12, 4),
               RightLegJointId, TRUE, V3(-3, -13, -3)),
           box("LeftLeg", V3(4, 12, 4), _create_box_uv(16, 48, 4, 12, 4),
               LeftLegJointId, FALSE, V3(-2, -12, -2)),
           box("LeftPants", V3(6, 14, 6), _create_box_uv(0, 48, 4, 12, 4),
               LeftLegJointId, TRUE, V3(-3, -13, -3)),
           box("Body", V3(8, 12, 4), _create_box_uv(16, 16, 8, 12, 4),
               BodyJointId, FALSE, V3(-4, 0, -2)),
           box("Jacket", V3(10, 14, 6), _create_box_uv(16, 32, 8, 12, 4),
               BodyJointId, TRUE, V3(-5, -1, -3)) >>

\* The heap after the next statement of create_rig (the one that
\* constructs object Len(h) + 1).
create_rig_step(h, model_type) ==
    LET st == rig_statements(model_type)[Len(h) + 1]
        h1 == IF st.cls = "Node"
              THEN Node(h, st.name, st.parent)
              ELSE BoxPart(h, st.name, st.size, st.uv_map, st.parent,
                           st.is_overlay)
    IN  IF st.assigns THEN set_origin(h1, Len(h1), st.origin) ELSE h1

(***************************************************************************)
(* Pose applicator (pose.py).  A pose dict is the sequence of its items    *)
(* <<part_name, data>> in insertion order; data is a record with a subset  *)
(* of the keys x, y, z, rot, pos.  Positions are lengths (units of 1/K).   *)
(***************************************************************************)
\* PoseApplicator.POSES
POSES ==
    [default |-> <<>>,
     walking |-> << <<"RightLegJoint", [rot |-> [x |-> 20]]>>,
                    <<"LeftLegJoint", [rot |-> [x |-> -20]]>>,
                    <<"RightArmJoint", [rot |-> [x |-> -20]]>>,
                    <<"LeftArmJoint", [rot |-> [x |-> 20]]>> >>,
     zombie |-> << <<"RightArmJoint",
                     [rot |-> [x |-> 90],
                      pos |-> [x |-> 4 * K, y |-> 10 * K, z |-> 2 * K]]>>,
                   <<"LeftArmJoint",
                     [rot |-> [x |-> 90],
                      pos |-> [x |-> -4 * K, y |-> 10 * K, z |-> 2 * K]]>> >>,
     t_pose |-> << <<"RightArmJoint",
                     [rot |-> [z |-> 90],
                      pos |-> [x |-> 4 * K, y |-> 8 * K, z |-> 0]]>>,
                   <<"LeftArmJoint",
                     [rot |-> [z |-> -90],
                      pos |-> [x |-> -4 * K, y |-> 8 * K, z |-> 0]]>> >>,
     sitting |-> << <<"RightLegJoint", [rot |-> [x |-> 90]]>>,
                    <<"LeftLegJoint", [rot |-> [x |-> 90]]>> >>,
     sitting_zombie |->
        << <<"RightLegJoint", [rot |-> [x |-> 90]]>>,
           <<"LeftLegJoint", [rot |-> [x |-> 90]]>>,
           <<"RightArmJoint",
             [rot |-> [x |-> 90],
              pos |-> [x |-> 4 * K, y |-> 10 * K, z |-> 2 * K]]>>,
           <<"LeftArmJoint",
             [rot |-> [x |-> 90],
              pos |-> [x |-> -4 * K, y |-> 10 * K, z |-> 2 * K]]>> >>,
     sitting_relaxed |->
        << <<"RightLegJoint", [rot |-> [x |-> 90]]>>,
           <<"LeftLegJoint", [rot |-> [x |-> 90]]>>,
           <<"RightArmJoint",
             [rot |-> [x |-> 45],
              pos |-> [x |-> 4 * K, y |-> 12 * K, z |-> 2 * K]]>>,
           <<"LeftArmJoint",
             [rot |-> [x |-> 45],
              pos |-> [x |-> -4 * K, y |-> 12 * K, z |-> 2 * K]]>> >>,
     running |-> << <<"RightLegJoint", [rot |-> [x |-> 50]]>>,
                    <<"LeftLegJoint", [rot |-> [x |-> -50]]>>,
                    <<"RightArmJoint", [rot |-> [x |-> -50]]>>,
                    <<"LeftArmJoint", [rot |-> [x |-> 50]]>> >>,
     sneaking |-> << <<"BodyJoint", [rot |-> [x |-> -15]]>>,
                     <<"HeadJoint", [rot |-> [x |-> 15]]>>,
                     <<"RightLegJoint", [rot |-> [x |-> 15]]>>,
                     <<"LeftLegJoint", [rot |-> [x |-> 15]]>>,
                     <<"RightArmJoint", [rot |-> [x |-> 15]]>>,
                     <<"LeftArmJoint", [rot |-> [x |-> 15]]>> >>,
     flying |-> << <<"BodyJoint", [rot |-> [x |-> -90]]>>,
                   <<"HeadJoint", [rot |-> [x |-> 90]]>>,
                   <<"RightArmJoint", [rot |-> [x |-> 180]]>>,
                   <<"LeftArmJoint", [rot |-> [x |-> 180]]>>,
                   <<"RightLegJoint", [rot |-> [x |-> 0]]>>,
                   <<"LeftLegJoint", [rot |-> [x |-> 0]]>> >>,
     waving |-> << <<"RightArmJoint", [rot |-> [x |-> -170, z |-> 20]]>> >>,
     pointing |-> << <<"RightArmJoint", [rot |-> [x |-> -90, y |-> 10]]>> >>,
     facepalm |-> << <<"RightArmJoint", [rot |-> [x |-> -130, y |-> -40]]>> >>,
     shrug |-> << <<"RightArmJoint", [rot |-> [z |-> 30, x |-> -10]]>>,
                  <<"LeftArmJoint", [rot |-> [z |-> -30, x |-> -10]]>> >>,
     bow_aim |-> << <<"RightArmJoint", [rot |-> [x |-> -90, y |-> 45]]>>,
                    <<"LeftArmJoint", [rot |-> [x |-> -90]]>> >>,
     sword_charge |-> << <<"RightArmJoint", [rot |-> [x |-> -180]]>> >>,
     hero_landing |-> << <<"BodyJoint", [rot |-> [x |-> -45]]>>,
                         <<"HeadJoint", [rot |-> [x |-> 45]]>>,
                         <<"RightLegJoint", [rot |-> [x |-> -60]]>>,
                         <<"LeftLegJoint", [rot |-> [x |-> 45]]>>,
                         <<"RightArmJoint", [rot |-> [x |-> 45]]>>,
                         <<"LeftArmJoint", [rot |-> [x |-> 80]]>> >>]

\* PoseApplicator.get_pose
get_pose(name) == IF name \in DOMAIN POSES THEN POSES[name] ELSE <<>>

\* apply_pose's traverse: the nodes below n in visiting order (n first).
RECURSIVE traverse(_, _)
RECURSIVE traverse_children(_, _, _)
traverse_children(h, cs, i) ==
    IF i > Len(cs) THEN <<>>
    ELSE traverse(h, cs[i]) \o traverse_children(h, cs, i + 1)

traverse(h, n) == <<n>> \o traverse_children(h, h[n].children, 1)

\* nodes_map after traverse(rig.root): name -> node, a later visit of the
\* same name replacing an earlier one.
build_nodes_map(h, r) ==
    LET order == traverse(h, r)
    IN  [nm \in {h[order[i]].name : i \in 1..Len(order)} |->
            order[SetMax({i \in 1..Len(order) : h[order[i]].name = nm})]]

\* The body of apply_pose's loop for a part name that is in nodes_map, with
\* a legacy entry that also resets the origin: a variant used to test the
\* claims.
pose_node_reset(h, node, data) ==
    IF "x" \in DOMAIN data /\ "rot" \notin DOMAIN data
    THEN [h EXCEPT ![node].rotation =
              <<Get(data, "x", 0), Get(data, "y", 0), Get(data, "z", 0)>>,
                   ![node].origin = <<0, 0, 0>>]
    ELSE LET h1 == IF "rot" \in DOMAIN data
                   THEN [h EXCEPT ![node].rotation =
                            <<Get(data.rot, "x", 0), Get(data.rot, "y", 0),
                              Get(data.rot, "z", 0)>>]
                   ELSE h
         IN  IF "pos" \in DOMAIN data
             THEN [h1 EXCEPT ![node].origin =
                      <<Get(data.pos, "x", 0), Get(data.pos, "y", 0),
                        Get(data.pos, "z", 0)>>]
             ELSE h1

\* The body of apply_pose's loop for a part name that is in nodes_map.
pose_node(h, node, data) ==
    IF "x" \in DOMAIN data /\ "rot" \notin DOMAIN data
    THEN [h EXCEPT ![node].rotation =
              <<Get(data, "x", 0), Get(data, "y", 0), Get(data, "z", 0)>>]
    ELSE LET h1 == IF "rot" \in DOMAIN data
                   THEN [h EXCEPT ![node].rotation =
                            <<Get(data.rot, "x", 0), Get(data.rot, "y", 0),
                              Get(data.rot, "z", 0)>>]
                   ELSE h
         IN  IF "pos" \in DOMAIN data
             THEN [h1 EXCEPT ![node].origin =
                      <<Get(data.pos, "x", 0), Get(data.pos, "y", 0),
                        Get(data.pos, "z", 0)>>]
             ELSE h1

\* One iteration of apply_pose's loop over pose_data.items(): the heap, what
\* it printed, and the exception it ended with ("none": it went on).  The
\* variant indexes nodes_map without the membership test (a KeyError).
pose_item_unguarded(h, nodes_map, part_name, data) ==
    IF part_name \in DOMAIN nodes_map
    THEN [heap |-> pose_node(h, nodes_map[part_name], data),
          printed |-> <<>>, exc |-> "none"]
    ELSE [heap |-> h, printed |-> <<>>, exc |-> "KeyError"]

pose_item(h, nodes_map, part_name, data) ==
    IF part_name \in DOMAIN nodes_map
    THEN [heap |-> pose_node(h, nodes_map[part_name], data),
          printed |-> <<>>, exc |-> "none"]
    ELSE [heap |-> h, printed |-> <<part_name>>, exc |-> "none"]

(***************************************************************************)
(* Rasterizer (rasterizer.py).  A skin is [w, h, paints]: the RGBA image   *)
(* of width w and height h that is transparent black except where the      *)
(* rectangles of paints (later over earlier) colour it; a "checker" paint  *)
(* is transparent on the pixels with u + v odd, a "none" paint everywhere, *)
(* and a "pixels" paint gives every pixel (u, v) its own opaque colour.    *)
(***************************************************************************)
Transparent == <<0, 0, 0, 0>>

\* skin_data[v, u]
skin_data(sk, u, v) ==
    LET over == {i \in 1..Len(sk.paints) :
                    /\ sk.paints[i].u <= u /\ u < sk.paints[i].u + sk.paints[i].w
                    /\ sk.paints[i].v <= v /\ v < sk.paints[i].v + sk.paints[i].h}
    IN  IF over = {} THEN Transparent
        ELSE LET p == sk.paints[SetMax(over)]
             IN  IF p.kind = "none" THEN Transparent
                 ELSE IF p.kind = "checker" /\ (u + v) % 2 = 1
                 THEN <<p.rgba[1], p.rgba[2], p.rgba[3], 0>>
                 ELSE IF p.kind = "pixels"
                 THEN <<u, v, p.rgba[3], 255>>
                 ELSE p.rgba

\* epsilon = 0.001, in length units.
epsilon == K \div 1000

\* sorted(parts, key=lambda p: p.is_overlay): stable, False before True.
\* The variant (the list as given) is used to test the claims about the
\* processing order.
sort_parts_unsorted(h, ps) == ps

sort_parts(h, ps) ==
    SelectSeq(ps, LAMBDA p : ~h[p].is_overlay)
        \o SelectSeq(ps, LAMBDA p : h[p].is_overlay)

\* x_range, y_range, z_range from the global AABB of the parts.
grid_ranges(h, ps) ==
    LET boxes == {get_aabb_world(h, ps[i]) : i \in 1..Len(ps)}
        mn(c) == SetMin({b[1][c] : b \in boxes})
        mx(c) == SetMax({b[2][c] : b \in boxes})
    IN  [x0 |-> int(mn(1)), x1 |-> int(mx(1)) + 1,
         y0 |-> int(mn(2)), y1 |-> int(mx(2)) + 1,
         z0 |-> int(mn(3)), z1 |-> int(mx(3)) + 1]

\* dim_x, dim_y, dim_z and total_voxels of the grid.
dim_x(g) == g.x1 - g.x0 + 1

dim_y(g) == g.y1 - g.y0 + 1

dim_z(g) == g.z1 - g.z0 + 1

total_voxels(g) == dim_x(g) * dim_y(g) * dim_z(g)

\* A sequence given as a function on 1..n, as the tuple of its values (each
\* computed once).
array(f) == f \o <<>>

\* (flat_x[i], flat_y[i], flat_z[i]) of the meshgrid with indexing='ij',
\* flattened row-major; flat indices start at 1 here.
flat_point(g, i) ==
    <<g.x0 + (i - 1) \div (dim_y(g) * dim_z(g)),
      g.y0 + (((i - 1) \div dim_z(g)) % dim_y(g)),
      g.z0 + ((i - 1) % dim_z(g))>>

in_grid(g, vx) ==
    /\ g.x0 <= vx[1] /\ vx[1] <= g.x1
    /\ g.y0 <= vx[2] /\ vx[2] <= g.y1
    /\ g.z0 <= vx[3] /\ vx[3] <= g.z1

\* The flat index of the voxel (x, y, z) of the grid.
flat_index(g, vx) ==
    ((vx[1] - g.x0) * dim_y(g) + (vx[2] - g.y0)) * dim_z(g) + (vx[3] - g.z0) + 1

\* np.linalg.inv of a world matrix: a product of translations and rotations
\* is invertible, and its inverse is [R^T, -R^T t].
linalg_inv(m) ==
    LET tx == m[4]  ty == m[8]  tz == m[12]
    IN  <<m[1], m[5], m[9],  -(m[1] * tx + m[5] * ty + m[9] * tz),
          m[2], m[6], m[10], -(m[2] * tx + m[6] * ty + m[10] * tz),
          m[3], m[7], m[11], -(m[3] * tx + m[7] * ty + m[11] * tz),
          0, 0, 0, 1>>

\* world_points @ inv_mat.T for voxel vx: the variant takes the voxel's
\* corner, the code its centre (+ 0.5).
local_point_corner(inv, vx) ==
    transform_point(inv, vx[1] * K, vx[2] * K, vx[3] * K)

local_point(inv, vx) ==
    transform_point(inv, vx[1] * K + K \div 2, vx[2] * K + K \div 2,
                    vx[3] * K + K \div 2)

\* mask
in_mask(size, l) ==
    /\ l[1] >= -epsilon /\ l[1] < size[1] + epsilon
    /\ l[2] >= -epsilon /\ l[2] < size[2] + epsilon
    /\ l[3] >= -epsilon /\ l[3] < size[3] + epsilon

\* dists, in the order left, right, bot, top, front, back
face_dists(size, l) ==
    <<Abs(l[1]), Abs(size[1] - l[1]), Abs(l[2]), Abs(size[2] - l[2]),
      Abs(l[3]), Abs(size[3] - l[3])>>

\* np.argmin(dists): the first index (0..5) of the minimum
face_index(size, l) ==
    LET dists == face_dists(size, l)
    IN  CHOOSE idx \in 0..5 :
            /\ \A i \in 1..6 : dists[idx + 1] <= dists[i]
            /\ \A i \in 1..idx : dists[i] > dists[idx + 1]

\* The face_key of the map_face call for each face index.
face_key(idx) ==
    CASE idx = 0 -> "left" [] idx = 1 -> "right" [] idx = 2 -> "bottom"
      [] idx = 3 -> "top" [] idx = 4 -> "front" [] idx = 5 -> "back"

\* u_expr and v_expr of the map_face call for each face index.
u_expr(idx, size, l) == IF idx \in {0, 1} THEN l[3] ELSE l[1]

v_expr(idx, size, l) == IF idx \in {2, 3} THEN l[3] ELSE size[2] - l[2]

\* np.floor of a length, in whole units
floor(x) == x \div K

\* np.clip(x, lo, hi)
clip(x, lo, hi) == IF x < lo THEN lo ELSE IF x > hi THEN hi ELSE x

\* The entry of a voxel outside the part's mask.
NoSample ==
    [mask |-> FALSE, face |-> 0, valid |-> FALSE, u |-> 0, v |-> 0]

\* What one part does with a voxel of its mask at the local point l: the
\* face chosen (face_indices), valid_uv_mask, and the texture pixel
\* (u_final, v_final) when valid.
sample(part, l) ==
    LET idx == face_index(part.size, l)
        key == face_key(idx)
        mapped == key \in DOMAIN part.uv_map
        rect == IF mapped THEN part.uv_map[key] ELSE <<0, 0, 0, 0>>
        iu_off == floor(u_expr(idx, part.size, l))
        iv_off == floor(v_expr(idx, part.size, l))
        valid_proj == /\ mapped
                      /\ iu_off >= 0 /\ iu_off < rect[3]
                      /\ iv_off >= 0 /\ iv_off < rect[4]
    IN  [mask |-> TRUE, face |-> idx, valid |-> valid_proj,
         u |-> rect[1] + iu_off, v |-> rect[2] + iv_off]

\* The samples of a part over the flat grid.
part_samples(h, p, g) ==
    LET inv == linalg_inv(get_world_matrix(h, p))
        at(l) == IF in_mask(h[p].size, l) THEN sample(h[p], l) ELSE NoSample
    IN  array([i \in 1..total_voxels(g) |-> at(local_point(inv, flat_point(g, i)))])

\* Whether a np.place call of map_face raises ValueError for the samples
\* smp: a face with a UV entry has voxels of the mask, and none of them
\* projects into the face's UV rectangle.
place_fails(part, smp) ==
    \E idx \in 0..5 :
        /\ face_key(idx) \in DOMAIN part.uv_map
        /\ \E i \in 1..Len(smp) : smp[i].mask /\ smp[i].face = idx
        /\ \A i \in 1..Len(smp) :
              (smp[i].mask /\ smp[i].face = idx) => ~smp[i].valid

\* The colour sampled for a valid voxel: skin_data[vs, us] after the clip.
sample_color(sk, s) ==
    skin_data(sk, clip(s.u, 0, sk.w - 1), clip(s.v, 0, sk.h - 1))

\* alpha_mask, with the variant that keeps every sampled pixel.
alpha_mask_all(rgba) == TRUE

alpha_mask(rgba) == rgba[4] > 0

\* One iteration of the loop over sorted_parts: the new volume_colors, or
\* the exception raised.
raster_part(h, p, sk, g, vol) ==
    LET smp == part_samples(h, p, g)
        update(s, old) ==
            IF s.valid
            THEN LET colors == sample_color(sk, s)
                 IN  IF alpha_mask(colors) THEN colors ELSE old
            ELSE old
    IN  IF place_fails(h[p], smp)
        THEN [exc |-> "ValueError", vol |-> vol]
        ELSE [exc |-> "none",
              vol |-> array([i \in 1..Len(vol) |-> update(smp[i], vol[i])])]

\* has_block of the padded volume_3d at voxel vx (0 outside the grid)
has_block(vol, g, vx) == in_grid(g, vx) /\ vol[flat_index(g, vx)][4] > 0

\* internal: the six shifted views of the padded array at vx; the variant
\* leaves the z neighbours out.
internal_xy(vol, g, vx) ==
    /\ has_block(vol, g, <<vx[1] + 1, vx[2], vx[3]>>)
    /\ has_block(vol, g, <<vx[1] - 1, vx[2], vx[3]>>)
    /\ has_block(vol, g, <<vx[1], vx[2] + 1, vx[3]>>)
    /\ has_block(vol, g, <<vx[1], vx[2] - 1, vx[3]>>)

internal(vol, g, vx) ==
    /\ has_block(vol, g, <<vx[1] + 1, vx[2], vx[3]>>)
    /\ has_block(vol, g, <<vx[1] - 1, vx[2], vx[3]>>)
    /\ has_block(vol, g, <<vx[1], vx[2] + 1, vx[3]>>)
    /\ has_block(vol, g, <<vx[1], vx[2] - 1, vx[3]>>)
    /\ has_block(vol, g, <<vx[1], vx[2], vx[3] + 1>>)
    /\ has_block(vol, g, <<vx[1], vx[2], vx[3] - 1>>)

\* keep_mask, over the flat grid
keep_mask(vol, g, sol) ==
    array([i \in 1..Len(vol) |->
              /\ vol[i][4] > 0
              /\ sol \/ ~internal(vol, g, flat_point(g, i))])

\* PixelBlock(x, y, z, r, g, b, a)
PixelBlock(vx, rgba) ==
    [x |-> vx[1], y |-> vx[2], z |-> vx[3],
     r |-> rgba[1], g |-> rgba[2], b |-> rgba[3], a |-> rgba[4]]

\* The returned list: the blocks of keep_mask in the order of np.where.
pixel_blocks(vol, g, sol) ==
    LET keep == keep_mask(vol, g, sol)
        where == SelectSeq(array([i \in 1..Len(vol) |-> i]), LAMBDA i : keep[i])
    IN  array([k \in 1..Len(where) |->
                  PixelBlock(flat_point(g, where[k]), vol[where[k]])])


(***************************************************************************)
(* Inputs.                                                                 *)
(***************************************************************************)
\* Bounds of the explored inputs.
MaxNodes == 3
MaxPoseLen == 2
MaxDim == 3

Models == {"classic", "slim"}

Red == <<255, 0, 0, 255>>

\* The colour that marks the texture region of the n-th painted part.
Tint(n) == <<10 * n, 255 - n, n, 255>>

Fill(u, v, w, h, rgba) ==
    [u |-> u, v |-> v, w |-> w, h |-> h, rgba |-> rgba, kind |-> "fill"]

Checker(u, v, w, h, rgba) ==
    [u |-> u, v |-> v, w |-> w, h |-> h, rgba |-> rgba, kind |-> "checker"]

\* The box-UV region (u, v, 2(w + d), d + h) of a part created with
\* _create_box_uv(u, v, w, h, d), painted with one colour.
RegionPaint(kind, u, v, w, h, d, rgba) ==
    [u |-> u, v |-> v, w |-> 2 * (w + d), h |-> d + h, rgba |-> rgba,
     kind |-> kind]

Skin64(paints) == [w |-> 64, h |-> 64, paints |-> paints]

\* The 64x64 texture whose head region is opaque red, the rest transparent.
HeadRedSkin == Skin64(<<Fill(0, 0, 32, 16, Red)>>)

\* A 64x64 texture with every part's region opaque, one colour per part
\* (the regions of the two models' arms share their corner).
TintedSkin(model_type) ==
    LET a == arm_width(model_type)
    IN  Skin64(<<RegionPaint("fill", 0, 0, 8, 8, 8, Tint(HeadId)),
                 RegionPaint("fill", 32, 0, 8, 8, 8, Tint(HatId)),
                 RegionPaint("fill", 40, 16, a, 12, 4, Tint(RightArmId)),
                 RegionPaint("fill", 40, 32, a, 12, 4, Tint(RightSleeveId)),
                 RegionPaint("fill", 32, 48, a, 12, 4, Tint(LeftArmId)),
                 RegionPaint("fill", 48, 48, a, 12, 4, Tint(LeftSleeveId)),
                 RegionPaint("fill", 0, 16, 4, 12, 4, Tint(RightLegId)),
                 RegionPaint("fill", 0, 32, 4, 12, 4, Tint(RightPantsId)),
                 RegionPaint("fill", 16, 48, 4, 12, 4, Tint(LeftLegId)),
                 RegionPaint("fill", 0, 48, 4, 12, 4, Tint(LeftPantsId)),
                 RegionPaint("fill", 16, 16, 8, 12, 4, Tint(BodyId)),
                 RegionPaint("fill", 16, 32, 8, 12, 4, Tint(JacketId))>>)

NoSkin == Skin64(<<>>)

NoGrid == [x0 |-> 0, x1 |-> 0, y0 |-> 0, y1 |-> 0, z0 |-> 0, z1 |-> 0]

NoCall == [op |-> "none", p |-> None, c |-> None]

\* No batch is running.
NoBatch == [files |-> <<>>]

NoProc == [pose_name |-> <<>>]

\* The pose dicts given to apply_pose: catalog entries, and dicts of up to
\* MaxPoseLen items over known and unknown part names in both formats.
PoseNames == {"HeadJoint", "RightArmJoint", "Body", "Elbow"}

PoseDatas ==
    { [x |-> 90],
      [x |-> 180, z |-> 270],
      [y |-> 90],
      [x |-> 90, pos |-> [x |-> K, y |-> 2 * K, z |-> 3 * K]],
      [rot |-> [z |-> 90]],
      [pos |-> [x |-> 4 * K, y |-> 8 * K]],
      [rot |-> [x |-> 270, y |-> 0, z |-> 0],
       pos |-> [x |-> K, y |-> K, z |-> K]] }

RECURSIVE PoseDicts(_)
PoseDicts(n) ==
    IF n = 0 THEN {<<>>}
    ELSE LET shorter == PoseDicts(n - 1)
         IN  shorter \cup
             {Append(d, <<nm, dt>>) :
                 d \in {e \in shorter : Len(e) = n - 1},
                 nm \in PoseNames, dt \in PoseDatas}

UniqueKeys(d) == \A i, j \in 1..Len(d) : d[i][1] = d[j][1] => i = j

PoseInputs ==
    {POSES[nm] : nm \in DOMAIN POSES}
        \cup {d \in PoseDicts(MaxPoseLen) : UniqueKeys(d)}

PoseKeys(d) == {d[i][1] : i \in 1..Len(d)}

(***************************************************************************)
(* apply_pose, one item of pose_data per step.                             *)
(***************************************************************************)
RasterIdle ==
    /\ sorted_parts = <<>> /\ grid = NoGrid /\ volume_colors = <<>>
    /\ kidx = 0 /\ blocks = <<>>

\* process_skin's loop body starts: create_rig(model_type) is called.
InitRig ==
    /\ model \in Models
    /\ nodes = <<>> /\ root = None /\ parts = <<>> /\ bind = <<>>
    /\ pose = <<>> /\ pidx = 1 /\ warned = <<>>
    /\ skin = NoSkin /\ solid = FALSE
    /\ RasterIdle
    /\ last = NoCall /\ batch = NoBatch /\ proc = NoProc
    /\ pc = "create_rig"

CreateRigStep ==
    /\ pc = "create_rig" /\ Len(nodes) < Len(rig_statements(model))
    /\ nodes' = create_rig_step(nodes, model)
    /\ UNCHANGED <<proc, batch, root, parts, model, pose, pidx, warned, skin, solid,
                   sorted_parts, grid, volume_colors, kidx, blocks, last,
                   bind, pc>>

\* return Rig(root, priority_parts)
CreateRigReturn ==
    /\ pc = "create_rig" /\ Len(nodes) = Len(rig_statements(model))
    /\ root' = RootId
    /\ parts' = priority_parts
    /\ bind' = nodes
    /\ pc' = "rig"
    /\ UNCHANGED <<proc, batch, nodes, model, pose, pidx, warned, skin, solid,
                   sorted_parts, grid, volume_colors, kidx, blocks, last>>

\* apply_pose(rig, pose_data) is called with a pose dict of the set D.
ApplyPoseCall(D) ==
    /\ pc = "rig"
    /\ pose' \in D
    /\ pidx' = 1
    /\ pc' = "apply_pose"
    /\ UNCHANGED <<proc, batch, nodes, root, parts, model, warned, skin, solid,
                   sorted_parts, grid, volume_colors, kidx, blocks, last, bind>>

ApplyPoseItem ==
    /\ pc = "apply_pose" /\ pidx <= Len(pose)
    /\ LET r == pose_item(nodes, build_nodes_map(nodes, root),
                          pose[pidx][1], pose[pidx][2])
       IN  IF r.exc = "none"
           THEN /\ nodes' = r.heap
                /\ warned' = warned \o r.printed
                /\ pidx' = pidx + 1
                /\ pc' = pc
           ELSE /\ pc' = "raised"
                /\ UNCHANGED <<proc, batch, nodes, warned, pidx>>
    /\ UNCHANGED <<proc, batch, root, parts, model, pose, skin, solid, sorted_parts, grid,
                   volume_colors, kidx, blocks, last, bind>>

ApplyPoseReturn ==
    /\ pc = "apply_pose" /\ pidx > Len(pose)
    /\ pc' = "posed"
    /\ UNCHANGED <<proc, batch, nodes, root, parts, model, pose, pidx, warned, skin, solid,
                   sorted_parts, grid, volume_colors, kidx, blocks, last, bind>>

NextPose ==
    \/ CreateRigStep \/ CreateRigReturn
    \/ ApplyPoseCall(PoseInputs) \/ ApplyPoseItem \/ ApplyPoseReturn

SpecPose == InitRig /\ [][NextPose]_vars

(***************************************************************************)
(* rasterize, one part of sorted_parts per step.                           *)
(***************************************************************************)
\* rasterize(ps, skin, solid) is called with a skin of the set S and the
\* rig's parts in one of the list orders of O.
RasterBegin(S, O) ==
    /\ pc = "posed"
    /\ skin' \in S
    /\ solid' \in BOOLEAN
    /\ \E ps \in O :
          /\ parts' = ps
          /\ sorted_parts' = sort_parts(nodes, ps)
          /\ grid' = grid_ranges(nodes, ps)
          /\ volume_colors' =
                array([i \in 1..total_voxels(grid_ranges(nodes, ps)) |-> Transparent])
    /\ kidx' = 1
    /\ pc' = "rasterize"
    /\ UNCHANGED <<proc, batch, nodes, root, model, pose, pidx, warned, blocks, last, bind>>

RasterPart ==
    /\ pc = "rasterize" /\ kidx <= Len(sorted_parts)
    /\ LET r == raster_part(nodes, sorted_parts[kidx], skin, grid, volume_colors)
       IN  IF r.exc = "none"
           THEN /\ volume_colors' = r.vol
                /\ kidx' = kidx + 1
                /\ pc' = pc
           ELSE /\ pc' = "raised"
                /\ UNCHANGED <<proc, batch, volume_colors, kidx>>
    /\ UNCHANGED <<proc, batch, nodes, root, parts, model, pose, pidx, warned, skin, solid,
                   sorted_parts, grid, blocks, last, bind>>

RasterExtract ==
    /\ pc = "rasterize" /\ kidx > Len(sorted_parts)
    /\ blocks' = pixel_blocks(volume_colors, grid, solid)
    /\ pc' = "done"
    /\ UNCHANGED <<proc, batch, nodes, root, parts, model, pose, pidx, warned, skin, solid,
                   sorted_parts, grid, volume_colors, kidx, last, bind>>

\* process_skin: create_rig, apply_pose, rasterize(rig.parts, ...), for the
\* poses with rotations by multiples of 90 degrees.
RigPoses == {POSES.default, POSES.sitting}

NextRig ==
    \/ CreateRigStep \/ CreateRigReturn
    \/ ApplyPoseCall(RigPoses) \/ ApplyPoseItem \/ ApplyPoseReturn
    \/ RasterBegin({HeadRedSkin, TintedSkin(model)}, {parts})
    \/ RasterPart \/ RasterExtract

SpecRig == InitRig /\ [][NextRig]_vars

(***************************************************************************)
(* rasterize on small scenes, with the parts in any list order.            *)
(***************************************************************************)
\* A single box of size (w, h, d) with its own box-UV layout, under the root.
BoxScene(size, origin) ==
    LET h1 == Node(<<>>, "root", None)
        h2 == BoxPart(h1, "Box", size,
                      _create_box_uv(0, 0, size[1] \div K, size[2] \div K,
                                     size[3] \div K),
                      1, FALSE)
    IN  set_origin(h2, 2, origin)

\* A joint with a base box and an overlay box one block larger on every
\* side (the layout of a limb and its sleeve), and a second base box under
\* the root that overlaps them.
JointId == RootId + 1
BaseId == JointId + 1
OverlayId == BaseId + 1
OtherId == OverlayId + 1

LayerScene(rotation) ==
    LET h1 == Node(<<>>, "root", None)
        h2 == Node(h1, "Joint", 1)
        h3 == set_origin(BoxPart(h2, "Base", V3(2, 2, 2),
                                 _create_box_uv(0, 0, 2, 2, 2), JointId, FALSE),
                         BaseId, V3(-1, 0, -1))
        h4 == set_origin(BoxPart(h3, "Overlay", V3(4, 4, 4),
                                 _create_box_uv(16, 0, 2, 2, 2), JointId, TRUE),
                         OverlayId, V3(-2, -1, -2))
        h5 == set_origin(BoxPart(h4, "Other", V3(2, 2, 2),
                                 _create_box_uv(32, 0, 2, 2, 2), 1, FALSE),
                         OtherId, V3(0, 0, -1))
    IN  [h5 EXCEPT ![JointId].rotation = rotation]

Dims == 1..MaxDim

Scenes ==
    {BoxScene(V3(w, h, d), o) :
        w \in Dims, h \in Dims, d \in Dims, o \in {V3(0, 0, 0), V3(-1, -2, 3)}}
    \cup {LayerScene(r) : r \in {<<0, 0, 0>>, <<0, 0, 90>>, <<90, 0, 0>>,
                                 <<0, 180, 0>>}}

\* The box parts of a heap, in construction order.
BoxParts(h) == SelectSeq([i \in 1..Len(h) |-> i], LAMBDA n : IsBoxPart(h, n))

\* The list orders of a list of parts.
Orders(ps) ==
    {o \in [1..Len(ps) -> SeqSet(ps)] : \A i, j \in 1..Len(ps) : o[i] = o[j] => i = j}

\* Textures for the scenes: the three UV regions painted opaque, with
\* transparent pixels in a checker pattern, or not at all.
\* The texture whose pixels all differ over the second region.
PixelSkin ==
    Skin64(<<[u |-> 0, v |-> 0, w |-> 16, h |-> 16, rgba |-> Tint(1), kind |-> "fill"],
             [u |-> 16, v |-> 0, w |-> 16, h |-> 16, rgba |-> Tint(2), kind |-> "pixels"],
             [u |-> 32, v |-> 0, w |-> 16, h |-> 16, rgba |-> Tint(3), kind |-> "fill"]>>)

SceneSkins ==
    {Skin64(<<[u |-> 0, v |-> 0, w |-> 16, h |-> 16, rgba |-> Tint(1), kind |-> k1],
              [u |-> 16, v |-> 0, w |-> 16, h |-> 16, rgba |-> Tint(2), kind |-> k2],
              [u |-> 32, v |-> 0, w |-> 16, h |-> 16, rgba |-> Tint(3), kind |-> "fill"]>>)
        : k1 \in {"fill", "checker"}, k2 \in {"fill", "checker", "none"}}
    \cup {PixelSkin}

InitRaster ==
    /\ nodes \in Scenes
    /\ root = 1 /\ parts = BoxParts(nodes) /\ model = "classic"
    /\ bind = nodes
    /\ pose = <<>> /\ pidx = 1 /\ warned = <<>>
    /\ skin = NoSkin /\ solid = FALSE
    /\ RasterIdle
    /\ last = NoCall /\ batch = NoBatch /\ proc = NoProc
    /\ pc = "posed"

NextRaster ==
    \/ RasterBegin(SceneSkins, Orders(parts))
    \/ RasterPart \/ RasterExtract

SpecRaster == InitRaster /\ [][NextRaster]_vars

(***************************************************************************)
(* Node construction and add_child in any order.                           *)
(***************************************************************************)
InitNode ==
    /\ nodes = <<>>
    /\ root = None /\ parts = <<>> /\ model = "classic"
    /\ pose = <<>> /\ pidx = 1 /\ warned = <<>>
    /\ skin = NoSkin /\ solid = FALSE
    /\ RasterIdle
    /\ last = NoCall /\ bind = <<>> /\ batch = NoBatch /\ proc = NoProc
    /\ pc = "graph"

\* Node(name, parent)
NewNode ==
    /\ pc = "graph" /\ Len(nodes) < MaxNodes
    /\ \E parent \in {None} \cup (1..Len(nodes)) :
          /\ nodes' = Node(nodes, "n", parent)
          /\ last' = [op |-> "Node", p |-> parent, c |-> Len(nodes) + 1]
    /\ UNCHANGED <<proc, batch, root, parts, model, pose, pidx, warned, skin, solid,
                   sorted_parts, grid, volume_colors, kidx, blocks, bind, pc>>

\* p.add_child(c)
AddChild ==
    /\ pc = "graph"
    /\ \E p \in 1..Len(nodes), c \in 1..Len(nodes) :
          /\ nodes' = add_child(nodes, p, c)
          /\ last' = [op |-> "add_child", p |-> p, c |-> c]
    /\ UNCHANGED <<proc, batch, root, parts, model, pose, pidx, warned, skin, solid,
                   sorted_parts, grid, volume_colors, kidx, blocks, bind, pc>>

NextNode == NewNode \/ AddChild

SpecNode == InitNode /\ [][NextNode]_vars

(***************************************************************************)
(* Properties of rasterize.                                                *)
(***************************************************************************)
\* The texture pixel part p samples for each voxel of the grid (by flat
\* index): transparent black where the voxel is outside the part or does
\* not project into a face's UV rectangle.
PixelOf(p) ==
    LET smp == part_samples(nodes, p, grid)
    IN  array([i \in 1..Len(smp) |->
                  IF smp[i].valid THEN sample_color(skin, smp[i])
                  ELSE Transparent])

\* PixelOf for each part of the list given to rasterize.
Pixels == array([k \in 1..Len(parts) |-> PixelOf(parts[k])])

\* The parts of a layer (by position in the list) that claim voxel i with a
\* non-transparent pixel.
Claimants(px, overlay, i) ==
    {k \in 1..Len(parts) :
        nodes[parts[k]].is_overlay = overlay /\ px[k][i][4] > 0}

Coord(b) == <<b.x, b.y, b.z>>

Rgba(b) == <<b.r, b.g, b.b, b.a>>

\* C1: every returned block whose voxel a base part and an overlay part
\* both claim with a non-transparent pixel has the colour of an overlay
\* part's pixel (and so has the volume at that voxel).
C1_OverlayPrecedence ==
    pc = "done" =>
        \A px \in {Pixels} :
            /\ \A i \in 1..Len(volume_colors) :
                  (Claimants(px, FALSE, i) # {} /\ Claimants(px, TRUE, i) # {})
                      => volume_colors[i] \in
                            {px[k][i] : k \in Claimants(px, TRUE, i)}
            /\ \A n \in 1..Len(blocks) :
                  LET i == flat_index(grid, Coord(blocks[n]))
                  IN  (Claimants(px, FALSE, i) # {} /\ Claimants(px, TRUE, i) # {})
                          => Rgba(blocks[n]) \in
                                {px[k][i] : k \in Claimants(px, TRUE, i)}

\* C1 witness: the overlay came first in the list given to rasterize, under
\* a turned joint, and a returned block is claimed by both layers.
C1_Witness ==
    /\ pc = "done" /\ Len(parts) = 3
    /\ nodes[parts[1]].is_overlay
    /\ nodes[JointId].rotation # <<0, 0, 0>>
    /\ \E px \in {Pixels} : \E n \in 1..Len(blocks) :
          LET i == flat_index(grid, Coord(blocks[n]))
          IN  Claimants(px, FALSE, i) # {} /\ Claimants(px, TRUE, i) # {}

\* The six axis-aligned neighbours of a voxel.
Neighbours(v) ==
    {<<v[1] + 1, v[2], v[3]>>, <<v[1] - 1, v[2], v[3]>>,
     <<v[1], v[2] + 1, v[3]>>, <<v[1], v[2] - 1, v[3]>>,
     <<v[1], v[2], v[3] + 1>>, <<v[1], v[2], v[3] - 1>>}

\* The occupied voxels of the volume.
Occupied ==
    {flat_point(grid, i) : i \in {j \in 1..Len(volume_colors) :
                                     volume_colors[j][4] > 0}}

Returned == {Coord(blocks[n]) : n \in 1..Len(blocks)}

Extent(S, c) == SetMax({v[c] : v \in S}) - SetMin({v[c] : v \in S}) + 1

\* The voxels of S that are not on a face of its bounding box.
Inner(S) ==
    {v \in S : \A c \in 1..3 :
        SetMin({u[c] : u \in S}) < v[c] /\ v[c] < SetMax({u[c] : u \in S})}

\* C2: in solid mode the returned blocks are the occupied voxels, each
\* once with its colour; in hollow mode they are the occupied voxels with
\* an unoccupied (or outside) neighbour; and when the occupied voxels are a
\* filled w x h x d block, hollow mode removes its inner
\* (w-2) x (h-2) x (d-2) block if every dimension is at least 3, and
\* nothing otherwise.
C2_HollowSolid ==
    pc = "done" =>
        \A occ \in {Occupied} :
            /\ Cardinality(Returned) = Len(blocks)
            /\ \A n \in 1..Len(blocks) :
                  Rgba(blocks[n]) = volume_colors[flat_index(grid, Coord(blocks[n]))]
            /\ solid => Returned = occ
            /\ ~solid => Returned = {v \in occ : \E n \in Neighbours(v) : n \notin occ}
            /\ (~solid /\ occ # {}
                  /\ Cardinality(occ) = Extent(occ, 1) * Extent(occ, 2) * Extent(occ, 3))
               => LET w == Extent(occ, 1)
                      h == Extent(occ, 2)
                      d == Extent(occ, 3)
                  IN  /\ occ \ Returned = Inner(occ)
                      /\ Len(blocks) =
                            IF w >= 3 /\ h >= 3 /\ d >= 3
                            THEN w * h * d - (w - 2) * (h - 2) * (d - 2)
                            ELSE w * h * d

\* C2 witness: a filled block with every dimension at least 3 was
\* extracted in hollow mode, and its inner block is gone.
C2_Witness ==
    /\ pc = "done" /\ ~solid /\ Len(parts) = 1
    /\ \A c \in 1..3 : nodes[parts[1]].size[c] >= 3 * K
    /\ Inner(Occupied) # {}
    /\ Len(blocks) < Cardinality(Occupied)

\* A step of rasterize in which transparent pixels have no effect.
TransparencyStep ==
    /\ (pc = "rasterize" /\ kidx' = kidx + 1) =>
          \A px \in {PixelOf(sorted_parts[kidx])} :
              \A i \in 1..Len(volume_colors) :
                  px[i][4] = 0 => volume_colors'[i] = volume_colors[i]
    /\ (pc = "rasterize" /\ pc' = "done") =>
          \A px \in {Pixels} :
              \A n \in 1..Len(blocks') :
                  /\ blocks'[n].a > 0
                  /\ \E k \in 1..Len(parts) :
                        LET pixel == px[k][flat_index(grid, Coord(blocks'[n]))]
                        IN  pixel[4] > 0 /\ Rgba(blocks'[n]) = pixel

\* C3: a part changes the volume only at voxels where the pixel it samples
\* has alpha > 0 (a transparent pixel leaves the colour another part gave),
\* and every returned block has alpha > 0 and the colour of a
\* non-transparent pixel that some part samples at its voxel.
C3_Transparency == [][TransparencyStep]_vars

\* C3 witness: the overlay's UV region is wholly transparent, it was
\* processed over voxels the base parts had coloured, and those voxels were
\* returned with their colour.
C3_Witness ==
    /\ pc = "done" /\ Len(parts) = 3 /\ blocks # <<>>
    /\ skin.paints[2].kind = "none"
    /\ \E smp \in {part_samples(nodes, OverlayId, grid)} :
          \E i \in 1..Len(smp) :
              /\ smp[i].valid
              /\ sample_color(skin, smp[i])[4] = 0
              /\ volume_colors[i][4] > 0
              /\ \E n \in 1..Len(blocks) : Coord(blocks[n]) = flat_point(grid, i)

PartNames == [k \in 1..Len(parts) |-> nodes[parts[k]].name]

\* C4 (as claimed): the list create_rig returns is ordered head, arms,
\* legs, body, and at a voxel that two or more parts of the deciding layer
\* (the overlay layer if an overlay part claims the voxel, else the base
\* layer) claim with opaque pixels, the colour is that of the part that
\* comes first in the list.
C4_PriorityTieBreak ==
    /\ pc \notin {"create_rig", "graph"} =>
          PartNames = <<"Head", "Hat", "RightArm", "RightSleeve", "LeftArm",
                        "LeftSleeve", "RightLeg", "RightPants", "LeftLeg",
                        "LeftPants", "Body", "Jacket">>
    /\ pc = "done" =>
          \A px \in {Pixels} :
              \A i \in 1..Len(volume_colors) :
                  \A layer \in BOOLEAN :
                      LET c == Claimants(px, layer, i)
                      IN  (Cardinality(c) >= 2
                             /\ (layer \/ Claimants(px, TRUE, i) = {}))
                          => volume_colors[i] = px[SetMin(c)][i]

\* The part of C4 that the code keeps: the order of the list.
PriorityListOrder ==
    pc \notin {"create_rig", "graph"} =>
        PartNames = <<"Head", "Hat", "RightArm", "RightSleeve", "LeftArm",
                      "LeftSleeve", "RightLeg", "RightPants", "LeftLeg",
                      "LeftPants", "Body", "Jacket">>

\* What the code does at such a voxel: the part that comes last in the list
\* supplies the colour.
LaterPartWins ==
    pc = "done" =>
        \A px \in {Pixels} :
            \A i \in 1..Len(volume_colors) :
                \A layer \in BOOLEAN :
                    LET c == Claimants(px, layer, i)
                    IN  (c # {} /\ (layer \/ Claimants(px, TRUE, i) = {}))
                        => volume_colors[i] = px[SetMax(c)][i]

HeadCube == (-4 .. 3) \X (24 .. 31) \X (-4 .. 3)

HeadSurface ==
    {v \in HeadCube : v[1] \in {-4, 3} \/ v[2] \in {24, 31} \/ v[3] \in {-4, 3}}

\* C8: for the 64x64 texture with the head region opaque red and the rest
\* transparent, rasterize on the rest-pose rig does not raise and returns
\* exactly the 512 voxels x in -4..3, y in 24..31, z in -4..3, all red, in
\* solid mode, and exactly the surface voxels of that cube, all red, in
\* hollow mode.
C8_HeadScenario ==
    (skin = HeadRedSkin /\ pose = <<>>) =>
        /\ pc # "raised"
        /\ pc = "done" =>
              LET out == {blocks[n] : n \in 1..Len(blocks)}
              IN  /\ Cardinality(out) = Len(blocks)
                  /\ solid => /\ out = {PixelBlock(v, Red) : v \in HeadCube}
                              /\ Len(blocks) = 512
                  /\ ~solid => out = {PixelBlock(v, Red) : v \in HeadSurface}

\* C8 witness: the scenario ran to the end in solid mode and returned 512
\* blocks.
C8_Witness ==
    /\ pc = "done" /\ skin = HeadRedSkin /\ pose = <<>> /\ solid
    /\ Len(blocks) = 512

\* The same in hollow mode: 8^3 - 6^3 blocks.
HeadScenarioHollow ==
    /\ pc = "done" /\ skin = HeadRedSkin /\ pose = <<>> /\ ~solid
    /\ Len(blocks) = 296

(***************************************************************************)
(* Properties of apply_pose.                                               *)
(***************************************************************************)
\* The data pose_data holds for a part name.
PoseDataOf(name) == pose[CHOOSE i \in 1..Len(pose) : pose[i][1] = name][2]

RotationGiven(data) == "rot" \in DOMAIN data \/ "x" \in DOMAIN data

PositionGiven(data) == "pos" \in DOMAIN data

\* C5: while and after apply_pose runs, every node equals its bind state
\* except for origin and rotation; a node whose name is no key of the pose
\* map keeps both; a node whose name is a key has a changed rotation only
\* if its entry gives a rotation and a changed origin only if it gives a
\* position.
C5_PoseFrame ==
    pc \in {"apply_pose", "posed"} =>
        /\ Len(nodes) = Len(bind)
        /\ \A n \in 1..Len(nodes) :
              /\ nodes[n] = [bind[n] EXCEPT !.origin = nodes[n].origin,
                                                !.rotation = nodes[n].rotation]
              /\ nodes[n].name \notin PoseKeys(pose) =>
                    /\ nodes[n].origin = bind[n].origin
                    /\ nodes[n].rotation = bind[n].rotation
              /\ nodes[n].name \in PoseKeys(pose) =>
                    /\ nodes[n].rotation # bind[n].rotation
                          => RotationGiven(PoseDataOf(nodes[n].name))
                    /\ nodes[n].origin # bind[n].origin
                          => PositionGiven(PoseDataOf(nodes[n].name))

\* C5 witness: a two-item pose was applied; it moved one joint and turned
\* another, and a box part it names was turned by a legacy entry.
C5_Witness ==
    /\ pc = "posed" /\ Len(pose) = 2
    /\ nodes[RightArmJointId].origin # bind[RightArmJointId].origin
    /\ nodes[RightArmJointId].rotation = bind[RightArmJointId].rotation
    /\ nodes[BodyId].rotation # bind[BodyId].rotation

\* apply_pose as a whole: the heap after the loop over the items of d.
apply_pose(h, r, d) ==
    LET after[i \in 0..Len(d)] ==
            IF i = 0 THEN h
            ELSE pose_item(after[i - 1], build_nodes_map(after[i - 1], r),
                           d[i][1], d[i][2]).heap
    IN  after[Len(d)]

KnownNames == {bind[n].name : n \in 1..Len(bind)}

\* C6: apply_pose never raises, and after it the rig is what apply_pose
\* makes of the pose map with the unknown names' items removed.
C6_UnknownJointTolerated ==
    /\ pc # "raised"
    /\ pc = "posed" =>
          nodes = apply_pose(bind, root,
                             SelectSeq(pose, LAMBDA e : e[1] \in KnownNames))

\* C6 witness: the unknown name came first, was printed, and the item after
\* it changed the rig.
C6_Witness ==
    /\ pc = "posed" /\ Len(pose) = 2
    /\ pose[1][1] \notin KnownNames /\ pose[2][1] \in KnownNames
    /\ warned = <<pose[1][1]>>
    /\ nodes # bind

\* The highest world Y of a box part.
TopY(h, n) == get_aabb_world(h, n)[2][2]

\* C7 (as claimed): after create_rig(model) and apply_pose with t_pose, the
\* tops of both arms are at the top of the body, Y = 24, for both models.
C7_TPoseFlush ==
    (pc = "posed" /\ pose = POSES.t_pose) =>
        /\ TopY(nodes, BodyId) = 24 * K
        /\ TopY(nodes, RightArmId) = TopY(nodes, BodyId)
        /\ TopY(nodes, LeftArmId) = TopY(nodes, BodyId)

\* The same for the classic model alone (arm width 4), where it holds.
TPoseFlushClassic ==
    (pc = "posed" /\ pose = POSES.t_pose /\ model = "classic") =>
        /\ TopY(nodes, BodyId) = 24 * K
        /\ TopY(nodes, RightArmId) = TopY(nodes, BodyId)
        /\ TopY(nodes, LeftArmId) = TopY(nodes, BodyId)

(***************************************************************************)
(* Properties of Node.add_child.                                           *)
(***************************************************************************)
\* C9 (as claimed): after a call p.add_child(c), c is exactly once in
\* p.children and c.parent is p.
C9_AddChildSetsParent ==
    last.op = "add_child" =>
        /\ Count(last.c, nodes[last.p].children) = 1
        /\ nodes[last.c].parent = last.p

\* The part of C9 that the code keeps: a child is never listed twice.
AddChildListsOnce ==
    \A p \in 1..Len(nodes), c \in 1..Len(nodes) :
        Count(c, nodes[p].children) <= 1

\* C10 (as claimed): c is in p.children exactly if c.parent is p, so no
\* node is in the children of two nodes.
C10_SingleParent ==
    \A p \in 1..Len(nodes), c \in 1..Len(nodes) :
        InSeq(c, nodes[p].children) <=> nodes[c].parent = p

(***************************************************************************)
(* Transforms and texture lookup on a small tree: a joint under the root   *)
(* and a box under the joint, whose uv_map has all six faces or only two.  *)
(* The nodes' origin and rotation are assigned as rig.py and pose.py       *)
(* assign them, and the Node / BoxPart queries are called.                 *)
(***************************************************************************)
TransformScene(uv_map) ==
    LET h1 == Node(<<>>, "root", None)
        h2 == Node(h1, "Joint", RootId)
    IN  BoxPart(h2, "Box", V3(2, 3, 2), uv_map, JointId, FALSE)

TransformScenes ==
    {TransformScene(_create_box_uv(0, 0, 2, 3, 2)),
     TransformScene([front |-> <<8, 8, 2, 3>>, top |-> <<8, 6, 2, 2>>])}

\* The <<origin, rotation>> pairs assigned to a node.
Transforms ==
    {<<V3(0, 0, 0), <<0, 0, 0>>>>, <<V3(1, -2, 3), <<90, 0, 0>>>>,
     <<V3(0, 0, 0), <<0, 90, 180>>>>, <<<<500, 0, -1500>>, <<0, 0, 270>>>>}

\* The local points given to world_to_local_point's round trip.
RoundTripPoints == {<<1500, -500, 2000>>}

\* The local points given to get_texture_coord: strictly inside the boxes
\* (nearest to each of the faces, and at equal distances), on the faces,
\* and outside.
TexturePoints ==
    {<<200, 1000, 1000>>, <<1800, 1000, 900>>, <<1000, 300, 900>>,
     <<1000, 1700, 600>>, <<1000, 1000, 100>>, <<1100, 1200, 1900>>,
     <<500, 500, 500>>, <<1500, 2500, 500>>,
     <<0, 500, 500>>, <<500, 2000, 1500>>, <<1500, 500, 0>>,
     <<1500, 3000, 500>>, <<2500, 500, 500>>, <<500, -500, 500>>}

InitTransform ==
    /\ nodes \in TransformScenes
    /\ root = RootId /\ parts = BoxParts(nodes) /\ model = "classic"
    /\ bind = nodes
    /\ pose = <<>> /\ pidx = 1 /\ warned = <<>>
    /\ skin = NoSkin /\ solid = FALSE
    /\ RasterIdle
    /\ last = NoCall /\ batch = NoBatch /\ proc = NoProc
    /\ pc = "transform"

\* node.origin = o; node.rotation = r
SetTransform ==
    /\ pc = "transform"
    /\ \E n \in 1..Len(nodes), t \in Transforms :
          /\ nodes' = [nodes EXCEPT ![n].origin = t[1], ![n].rotation = t[2]]
          /\ last' = [op |-> "set_transform", p |-> n, c |-> None]
    /\ UNCHANGED <<proc, batch, root, parts, model, pose, pidx, warned, skin, solid,
                   sorted_parts, grid, volume_colors, kidx, blocks, bind, pc>>

\* node.get_world_matrix()
GetWorldMatrix ==
    /\ pc = "transform"
    /\ \E n \in 1..Len(nodes) :
          last' = [op |-> "get_world_matrix", p |-> n,
                   c |-> get_world_matrix(nodes, n)]
    /\ UNCHANGED <<proc, batch, nodes, root, parts, model, pose, pidx, warned, skin, solid,
                   sorted_parts, grid, volume_colors, kidx, blocks, bind, pc>>

\* node.world_to_local_point(*transform_point(node.get_world_matrix(), *l))
WorldToLocalPoint ==
    /\ pc = "transform"
    /\ \E n \in 1..Len(nodes), l \in RoundTripPoints :
          LET w == transform_point(get_world_matrix(nodes, n), l[1], l[2], l[3])
          IN  last' = [op |-> "world_to_local_point", p |-> n,
                       c |-> [local |-> l, world |-> w,
                              back |-> world_to_local_point(nodes, n, w[1],
                                                            w[2], w[3])]]
    /\ UNCHANGED <<proc, batch, nodes, root, parts, model, pose, pidx, warned, skin, solid,
                   sorted_parts, grid, volume_colors, kidx, blocks, bind, pc>>

\* part.get_texture_coord(lx, ly, lz)
GetTextureCoord ==
    /\ pc = "transform"
    /\ \E n \in SeqSet(parts), l \in TexturePoints :
          last' = [op |-> "get_texture_coord", p |-> n,
                   c |-> [local |-> l,
                          coord |-> get_texture_coord(nodes[n], l[1], l[2],
                                                      l[3])]]
    /\ UNCHANGED <<proc, batch, nodes, root, parts, model, pose, pidx, warned, skin, solid,
                   sorted_parts, grid, volume_colors, kidx, blocks, bind, pc>>

NextTransform ==
    SetTransform \/ GetWorldMatrix \/ WorldToLocalPoint \/ GetTextureCoord

SpecTransform == InitTransform /\ [][NextTransform]_vars

(***************************************************************************)
(* Properties of the transforms.                                           *)
(***************************************************************************)
\* The nodes from the root down to n.
RECURSIVE AncestorChain(_, _)
AncestorChain(h, n) ==
    IF h[n].parent = None THEN <<n>>
    ELSE Append(AncestorChain(h, h[n].parent), n)

\* translation(origin) * rotation(rotation), written out: the rotation's
\* block with the origin as the translation column.
TranslateRotate(node) ==
    LET r == rotation_matrix(node.rotation[1], node.rotation[2],
                             node.rotation[3])
    IN  <<r[1], r[2], r[3], node.origin[1],
          r[5], r[6], r[7], node.origin[2],
          r[9], r[10], r[11], node.origin[3],
          0, 0, 0, 1>>

\* The product of the local matrices of chain[i], ..., chain[Len(chain)].
RECURSIVE ChainProduct(_, _, _)
ChainProduct(h, chain, i) ==
    IF i = Len(chain) THEN TranslateRotate(h[chain[i]])
    ELSE multiply_matrix(TranslateRotate(h[chain[i]]),
                         ChainProduct(h, chain, i + 1))

\* C11: get_world_matrix returns the product of the local matrices of the
\* node's ancestors from the root down, then its own; a local matrix is
\* translation(origin) * rotation(rotation) and does not depend on scale;
\* a node without a parent has its local matrix as its world matrix.
C11_WorldComposition ==
    /\ \A n \in 1..Len(nodes) :
          /\ get_local_matrix(nodes, n) = TranslateRotate(nodes[n])
          /\ get_local_matrix([nodes EXCEPT ![n].scale = 2], n)
                = get_local_matrix(nodes, n)
          /\ get_world_matrix(nodes, n)
                = ChainProduct(nodes, AncestorChain(nodes, n), 1)
          /\ nodes[n].parent = None =>
                get_world_matrix(nodes, n) = get_local_matrix(nodes, n)
    /\ last.op = "get_world_matrix" =>
          last.c = ChainProduct(nodes, AncestorChain(nodes, last.p), 1)

\* get_world_matrix was called on the box below the joint, with the root,
\* the joint and the box all rotated and moved.
C11_Witness ==
    /\ last.op = "get_world_matrix" /\ last.p = BaseId
    /\ \A n \in {RootId, JointId, BaseId} :
          nodes[n].rotation # <<0, 0, 0>> /\ nodes[n].origin # <<0, 0, 0>>
    /\ nodes[RootId].rotation # nodes[JointId].rotation
    /\ last.c # get_local_matrix(nodes, BaseId)

\* C12: for every world matrix M of the tree (a product of translation and
\* rotation matrices), invert_affine_matrix(M) * M is the identity, and
\* world_to_local_point of the world image of a local point is that point.
C12_AffineRoundTrip ==
    /\ \A n \in 1..Len(nodes) :
          LET M == get_world_matrix(nodes, n)
          IN  /\ multiply_matrix(invert_affine_matrix(M), M) = identity_matrix
              /\ multiply_matrix(M, invert_affine_matrix(M)) = identity_matrix
    /\ last.op = "world_to_local_point" => last.c.back = last.c.local

\* The round trip was made through a world matrix with a rotation and a
\* translation, for a point that the matrix moves.
C12_Witness ==
    /\ last.op = "world_to_local_point" /\ last.p = BaseId
    /\ nodes[JointId].rotation # <<0, 0, 0>>
    /\ nodes[RootId].origin # <<0, 0, 0>>
    /\ nodes[BaseId].rotation # <<0, 0, 0>>
    /\ last.c.world # last.c.local
    /\ last.c.back = last.c.local

(***************************************************************************)
(* Properties of get_texture_coord.                                        *)
(***************************************************************************)
StrictlyInside(size, l) ==
    \A c \in 1..3 : 0 < l[c] /\ l[c] < size[c]

\* The faces at the smallest of the six boundary distances.
NearestFaces(size, l) ==
    {k \in {"left", "right", "bottom", "top", "front", "back"} :
        LET dist(f) == CASE f = "left" -> l[1] [] f = "right" -> size[1] - l[1]
                         [] f = "bottom" -> l[2] [] f = "top" -> size[2] - l[2]
                         [] f = "front" -> l[3] [] f = "back" -> size[3] - l[3]
        IN  \A f \in {"left", "right", "bottom", "top", "front", "back"} :
                dist(k) <= dist(f)}

\* The pixel of face k that the local point l projects to.
FacePixel(part, k, l) ==
    LET along == IF k \in {"left", "right"} THEN l[3] ELSE l[1]
        down == IF k \in {"top", "bottom"} THEN l[3] ELSE part.size[2] - l[2]
    IN  <<part.uv_map[k][1] + along \div K, part.uv_map[k][2] + down \div K>>

\* C13: for a local point strictly inside the box, get_texture_coord
\* returns the (u, v) pixel of a face at the smallest of the six boundary
\* distances; it returns no mapping only when the point is outside the box
\* or the chosen face has no UV entry.
C13_NearestFace ==
    last.op = "get_texture_coord" =>
        LET part == nodes[last.p]
            l == last.c.local
            near == NearestFaces(part.size, l)
        IN  StrictlyInside(part.size, l) =>
                IF last.c.coord = NoCoord
                THEN \E k \in near : k \notin DOMAIN part.uv_map
                ELSE \E k \in near :
                        /\ k \in DOMAIN part.uv_map
                        /\ last.c.coord = FacePixel(part, k, l)

\* What the code does: a point strictly inside the box (more than epsilon
\* from every face) has no mapping; a point on a face has that face's
\* pixel when the face has a UV entry.
TextureCoordOnSurfaceOnly ==
    last.op = "get_texture_coord" =>
        LET part == nodes[last.p]
            l == last.c.local
        IN  /\ StrictlyInside(part.size, l) => last.c.coord = NoCoord
            /\ last.c.coord # NoCoord =>
                  \E k \in DOMAIN part.uv_map :
                      /\ k \in NearestFaces(part.size, l)
                      /\ last.c.coord = FacePixel(part, k, l)

(***************************************************************************)
(* Properties of the legacy pose format.                                   *)
(***************************************************************************)
\* An entry with axis keys directly under the joint name, no rot / pos.
LegacyEntry(data) ==
    /\ DOMAIN data # {}
    /\ DOMAIN data \subseteq {"x", "y", "z"}

\* The items of pose_data that apply_pose has gone through.
ItemsDone == 1..(pidx - 1)

\* C14: a legacy entry (any non-empty subset of x, y, z, no rot / pos
\* wrapper) for a node of the rig sets the node's rotation to (x, y, z),
\* missing axes 0, and leaves its origin as create_rig set it.
C14_LegacyFormat ==
    pc \in {"apply_pose", "posed"} =>
        \A i \in ItemsDone :
            LET name == pose[i][1]
                data == pose[i][2]
                nodes_map == build_nodes_map(bind, root)
            IN  (name \in DOMAIN nodes_map /\ LegacyEntry(data)) =>
                    /\ nodes[nodes_map[name]].rotation =
                          <<Get(data, "x", 0), Get(data, "y", 0),
                            Get(data, "z", 0)>>
                    /\ nodes[nodes_map[name]].origin =
                          bind[nodes_map[name]].origin

\* What the code does: the legacy branch is taken only when the entry has
\* the key x; a legacy entry without x changes nothing.
LegacyNeedsX ==
    pc \in {"apply_pose", "posed"} =>
        \A i \in ItemsDone :
            LET name == pose[i][1]
                data == pose[i][2]
                nodes_map == build_nodes_map(bind, root)
            IN  (name \in DOMAIN nodes_map /\ LegacyEntry(data)) =>
                    /\ nodes[nodes_map[name]].rotation =
                          IF "x" \in DOMAIN data
                          THEN <<Get(data, "x", 0), Get(data, "y", 0),
                                 Get(data, "z", 0)>>
                          ELSE bind[nodes_map[name]].rotation
                    /\ nodes[nodes_map[name]].origin =
                          bind[nodes_map[name]].origin

(***************************************************************************)
(* Items (items.py).  A call that Python cannot bind to the callee's       *)
(* signature raises TypeError before the callee's body runs.               *)
(***************************************************************************)
\* BoxPart.__init__'s parameters after self, and those without a default.
BoxPartParams == {"name", "size", "uv_map", "parent", "is_overlay"}

BoxPartRequired == {"name", "size", "uv_map"}

\* The call BoxPart(**kwargs): the exception raised ("none": it returned)
\* and the heap.
BoxPart_call(h, kwargs) ==
    IF /\ DOMAIN kwargs \subseteq BoxPartParams
       /\ BoxPartRequired \subseteq DOMAIN kwargs
    THEN [exc |-> "none",
          heap |-> BoxPart(h, kwargs.name, kwargs.size, kwargs.uv_map,
                           Get(kwargs, "parent", None),
                           Get(kwargs, "is_overlay", FALSE))]
    ELSE [exc |-> "TypeError", heap |-> h]

\* ItemFactory.COLORS
COLORS ==
    [wood |-> <<141, 118, 77>>, stone |-> <<131, 131, 131>>,
     iron |-> <<200, 200, 200>>, gold |-> <<250, 235, 41>>,
     diamond |-> <<47, 222, 216>>, netherite |-> <<66, 60, 63>>,
     stick |-> <<105, 78, 47>>, string |-> <<230, 230, 230>>,
     bow_wood |-> <<141, 118, 77>>]

\* make_part(name, min_p, max_p, col) of create_sword and create_bow
make_part(h, name, min_p, max_p, col, parent) ==
    LET size == <<max_p[1] - min_p[1], max_p[2] - min_p[2],
                  max_p[3] - min_p[3]>>
        bp == BoxPart_call(h, [name |-> name, size |-> size, color |-> col,
                               parent |-> parent])
    IN  IF bp.exc = "none"
        THEN [exc |-> "none", heap |-> set_origin(bp.heap, Len(bp.heap), min_p)]
        ELSE bp

\* parts.append(make_part(...)) for each of the calls, in order, up to the
\* first that raises: the exception, the heap and the list parts.
RECURSIVE make_parts(_, _, _, _, _)
make_parts(h, calls, i, parent, made) ==
    IF i > Len(calls) THEN [exc |-> "none", heap |-> h, parts |-> made]
    ELSE LET r == make_part(h, calls[i].name, calls[i].min_p, calls[i].max_p,
                            calls[i].col, parent)
         IN  IF r.exc = "none"
             THEN make_parts(r.heap, calls, i + 1, parent,
                             Append(made, Len(r.heap)))
             ELSE [exc |-> r.exc, heap |-> h, parts |-> made]

\* ItemFactory.create_sword(material, parent)
create_sword(h, material, parent) ==
    LET blade_color == Get(COLORS, material, COLORS["iron"])
        handle_color == COLORS["stick"]
        guard_color == blade_color
    IN  make_parts(h,
            <<[name |-> material \o "_sword_handle", min_p |-> V3(1, -13, 1),
               max_p |-> V3(3, -8, 3), col |-> handle_color],
              [name |-> material \o "_sword_guard", min_p |-> V3(0, -14, 1),
               max_p |-> V3(4, -13, 3), col |-> guard_color],
              [name |-> material \o "_sword_blade", min_p |-> V3(1, -24, 1),
               max_p |-> V3(3, -14, 3), col |-> blade_color]>>,
            1, parent, <<>>)

\* ItemFactory.create_bow(parent); CY = -11.0
create_bow(h, parent) ==
    LET wood_color == COLORS["bow_wood"]
        string_color == COLORS["string"]
        CY == -11
    IN  make_parts(h,
            <<[name |-> "bow_grip", min_p |-> V3(1, CY - 1, -1),
               max_p |-> V3(3, CY + 1, 1), col |-> wood_color],
              [name |-> "bow_upper_1", min_p |-> V3(1, CY - 1, -3),
               max_p |-> V3(3, CY + 1, -1), col |-> wood_color],
              [name |-> "bow_upper_2", min_p |-> V3(1, CY - 1, -5),
               max_p |-> V3(3, CY + 1, -3), col |-> wood_color],
              [name |-> "bow_lower_1", min_p |-> V3(1, CY - 1, 1),
               max_p |-> V3(3, CY + 1, 3), col |-> wood_color],
              [name |-> "bow_lower_2", min_p |-> V3(1, CY - 1, 3),
               max_p |-> V3(3, CY + 1, 5), col |-> wood_color],
              [name |-> "bow_string",
               min_p |-> <<K \div 2, CY * K - K \div 2, -5 * K>>,
               max_p |-> <<K, CY * K + K \div 2, 5 * K>>,
               col |-> string_color]>>,
            1, parent, <<>>)

\* The material strings given to create_sword: the catalog's, and one that
\* COLORS does not have.
Materials == {"wood", "iron", "diamond", "obsidian"}

\* ItemFactory.create_sword(material, parent) on a node of the posed rig
CreateSword ==
    /\ pc = "posed"
    /\ \E material \in Materials, parent \in 1..Len(nodes) :
          LET r == create_sword(nodes, material, parent)
          IN  /\ nodes' = r.heap
              /\ last' = [op |-> "create_sword", p |-> parent,
                          c |-> [exc |-> r.exc, parts |-> r.parts,
                                 material |-> material]]
              /\ pc' = IF r.exc = "none" THEN "items" ELSE "raised"
    /\ UNCHANGED <<proc, batch, root, parts, model, pose, pidx, warned, skin, solid,
                   sorted_parts, grid, volume_colors, kidx, blocks, bind>>

\* ItemFactory.create_bow(parent) on a node of the posed rig
CreateBow ==
    /\ pc = "posed"
    /\ \E parent \in 1..Len(nodes) :
          LET r == create_bow(nodes, parent)
          IN  /\ nodes' = r.heap
              /\ last' = [op |-> "create_bow", p |-> parent,
                          c |-> [exc |-> r.exc, parts |-> r.parts,
                                 material |-> "bow_wood"]]
              /\ pc' = IF r.exc = "none" THEN "items" ELSE "raised"
    /\ UNCHANGED <<proc, batch, root, parts, model, pose, pidx, warned, skin, solid,
                   sorted_parts, grid, volume_colors, kidx, blocks, bind>>

NextItems == NextPose \/ CreateSword \/ CreateBow

SpecItems == InitRig /\ [][NextItems]_vars

(***************************************************************************)
(* Properties of the item factory.                                         *)
(***************************************************************************)
ItemCalled == last.op \in {"create_sword", "create_bow"}

\* C15: create_sword returns three box parts and create_bow six, every one
\* with the given node as its parent and listed in that node's children,
\* and neither raises, whatever the material and the parent node.
C15_ItemConstruction ==
    ItemCalled =>
        /\ last.c.exc = "none"
        /\ Len(last.c.parts) = IF last.op = "create_sword" THEN 3 ELSE 6
        /\ \A i \in 1..Len(last.c.parts) :
              /\ IsBoxPart(nodes, last.c.parts[i])
              /\ nodes[last.c.parts[i]].parent = last.p
              /\ InSeq(last.c.parts[i], nodes[last.p].children)

\* What the code does: the first make_part call raises TypeError (BoxPart
\* has no parameter color, and uv_map is not given), so no part is built
\* and the rig is as it was.
ItemCallRaises ==
    ItemCalled =>
        /\ last.c.exc = "TypeError"
        /\ last.c.parts = <<>>
        /\ Len(nodes) = Len(bind)

(***************************************************************************)
(* Batch processing (main.py).  A dict is a function from its keys; a      *)
(* file is [loads, colors]: whether SkinLoader.load_skin returns for it,   *)
(* and the colours of the blocks of its statue.  A job's result is         *)
(* [raised, success, updates, cache]: whether an exception left the job,   *)
(* the returned pair, and the dict object it was given as it is when the   *)
(* job ends.                                                               *)
(***************************************************************************)
MaxFiles == 3

EmptyDict == <<>>

\* dict.update
update(d, u) == [k \in DOMAIN d \cup DOMAIN u |-> IF k \in DOMAIN u THEN u[k] ELSE d[k]]

\* ColorMatcher.match_bulk for one colour, with mode "wool" and the
\* built-in fallback palette: its only block.
match_bulk(rgba) == "minecraft:white_wool"

\* The colour matching of one pose's blocks (u_colors are the keys):
\* the job's local_cache_updates and the dict cache afterwards.
match_colors(colors, cache, local_cache_updates) ==
    LET miss_colors == {c \in colors : c \notin DOMAIN cache}
        matched == [c \in miss_colors |-> match_bulk(c)]
    IN  [updates |-> update(local_cache_updates, matched),
         cache |-> update(cache, matched)]

\* Rasterizer.rasterize's parameters.
RasterizeParams == {"parts", "skin", "solid"}

\* The call Rasterizer.rasterize(**kwargs) as far as Python binds it.
rasterize_call(kwargs) ==
    IF DOMAIN kwargs \subseteq RasterizeParams THEN "none" ELSE "TypeError"

\* item_type and item_material of a pose name
item_type(pose_name) ==
    IF pose_name \in {"sword_charge", "sword_charge_diamond"} THEN "sword"
    ELSE IF pose_name = "bow_aim" THEN "bow" ELSE "None"

item_material(pose_name) ==
    IF pose_name = "sword_charge_diamond" THEN "diamond" ELSE "iron"

\* The body of process_skin's outer try for a file that loads, for a pose
\* name other than debug_all (one pose to render): the exception that ends
\* it ("none": builder.save returned), local_cache_updates and cache.
process_skin_body(file, pose_name, cache) ==
    LET rig == Node(Node(<<>>, "root", None), "RightArmJoint", RootId)
        hand_node == RootId + 1
        item == IF item_type(pose_name) = "sword"
                THEN create_sword(rig, item_material(pose_name), hand_node).exc
                ELSE IF item_type(pose_name) = "bow"
                THEN create_bow(rig, hand_node).exc
                ELSE "none"
        raster == rasterize_call([parts |-> <<>>, skin |-> NoSkin,
                                  solid |-> FALSE, return_raw |-> TRUE])
    IN  IF item # "none"
        THEN [exc |-> item, updates |-> EmptyDict, cache |-> cache]
        ELSE IF raster # "none"
        THEN [exc |-> raster, updates |-> EmptyDict, cache |-> cache]
        ELSE LET m == match_colors(file.colors, cache, EmptyDict)
             IN  [exc |-> "none", updates |-> m.updates, cache |-> m.cache]

\* process_skin without its outer except clause: a variant used to test
\* the claims.
process_skin_uncaught(task, cache) ==
    IF ~task.file.loads
    THEN [raised |-> FALSE, success |-> FALSE, updates |-> EmptyDict,
          cache |-> cache]
    ELSE LET b == process_skin_body(task.file, task.pose_name, cache)
         IN  [raised |-> b.exc # "none", success |-> b.exc = "none",
              updates |-> b.updates, cache |-> b.cache]

\* process_skin(input_path, ..., pose_name, ..., matcher, cache)
process_skin(task, cache) ==
    IF ~task.file.loads
    THEN [raised |-> FALSE, success |-> FALSE, updates |-> EmptyDict,
          cache |-> cache]
    ELSE LET b == process_skin_body(task.file, task.pose_name, cache)
         IN  [raised |-> FALSE, success |-> b.exc = "none",
              updates |-> b.updates, cache |-> b.cache]

\* process_skin from the colour matching on (the blocks of the pose given,
\* SchematicBuilder not failing).
process_skin_matching(task, cache) ==
    LET m == match_colors(task.file.colors, cache, EmptyDict)
    IN  [raised |-> FALSE, success |-> TRUE, updates |-> m.updates,
         cache |-> m.cache]

\* workers = max(1, min(cpu_count - 1, 8))
workers(cpu_count) == Max2(1, Min2(cpu_count - 1, 8))

NoResult == [raised |-> FALSE, success |-> FALSE, updates |-> EmptyDict,
             cache |-> EmptyDict, none |-> TRUE]

\* tasks[i] of main
task(i) == [file |-> batch.files[i], pose_name |-> batch.pose_name]

RECURSIVE FileLists(_, _)
FileLists(F, n) ==
    IF n = 0 THEN {<<>>}
    ELSE LET shorter == FileLists(F, n - 1)
         IN  shorter \cup {Append(l, f) : l \in {e \in shorter : Len(e) = n - 1},
                                          f \in F}

\* main has parsed its arguments, found the files F-lists and loaded the
\* cache of the palette.
InitBatch(F, Poses, Caches) ==
    /\ nodes = <<>> /\ root = None /\ parts = <<>> /\ model = "classic"
    /\ bind = <<>>
    /\ pose = <<>> /\ pidx = 1 /\ warned = <<>>
    /\ skin = NoSkin /\ solid = FALSE
    /\ RasterIdle
    /\ last = NoCall
    /\ batch \in {[files |-> fs, pose_name |-> pn, workers |-> workers(cpus),
                   current_cache |-> c, at_call |-> c, pos |-> 1,
                   success_count |-> 0, results |-> <<>>, held |-> NoResult]
                     : fs \in FileLists(F, MaxFiles) \ {<<>>}, pn \in Poses,
                       cpus \in {1, 4}, c \in Caches}
    /\ proc = NoProc
    /\ pc = "main"

\* results = pool.map(process_skin_wrapper, tasks): every worker gets a
\* pickled copy of its task (and so of current_cache).
PoolMap(job(_, _)) ==
    /\ pc = "main" /\ Len(batch.files) > 1 /\ batch.workers > 1
    /\ LET results == [i \in 1..Len(batch.files) |->
                          job(task(i), batch.current_cache)]
       IN  IF \E i \in 1..Len(results) : results[i].raised
           THEN /\ pc' = "crashed"
                /\ batch' = batch
           ELSE /\ pc' = "collect"
                /\ batch' = [batch EXCEPT !.results = results]
    /\ UNCHANGED <<proc, nodes, root, parts, model, pose, pidx, warned, skin, solid,
                   sorted_parts, grid, volume_colors, kidx, blocks, last, bind>>

\* One iteration of: for success, updates in results
PoolCollect ==
    /\ pc = "collect"
    /\ LET r == batch.results[batch.pos]
       IN  batch' = [batch EXCEPT
                !.success_count = IF r.success THEN @ + 1 ELSE @,
                !.current_cache = IF DOMAIN r.updates # {}
                                  THEN update(@, r.updates) ELSE @,
                !.pos = @ + 1]
    /\ pc' = IF batch.pos = Len(batch.results) THEN "save" ELSE pc
    /\ UNCHANGED <<proc, nodes, root, parts, model, pose, pidx, warned, skin, solid,
                   sorted_parts, grid, volume_colors, kidx, blocks, last, bind>>

\* The call of a job in main's own process, with current_cache itself as
\* its cache argument: the dict is the job's to change.
call_in_process(job(_, _)) ==
    LET r == job(task(batch.pos), batch.current_cache)
    IN  IF r.raised
        THEN /\ pc' = "crashed"
             /\ batch' = batch
        ELSE /\ pc' = pc
             /\ batch' = [batch EXCEPT
                    !.at_call = batch.current_cache,
                    !.current_cache = r.cache,
                    !.results = Append(@, r),
                    !.held = r]

\* if s: success_count += 1; if u: current_cache.update(u)
merge_held ==
    batch' = [batch EXCEPT
        !.success_count = IF batch.held.success THEN @ + 1 ELSE @,
        !.current_cache = IF DOMAIN batch.held.updates # {}
                          THEN update(@, batch.held.updates) ELSE @,
        !.pos = @ + 1,
        !.held = NoResult]

IsHeld == "none" \notin DOMAIN batch.held

\* Serial fallback: s, u = process_skin_wrapper(task)
SerialCall(job(_, _)) ==
    /\ pc = "main" /\ Len(batch.files) > 1 /\ batch.workers <= 1
    /\ ~IsHeld /\ batch.pos <= Len(batch.files)
    /\ call_in_process(job)
    /\ UNCHANGED <<proc, nodes, root, parts, model, pose, pidx, warned, skin, solid,
                   sorted_parts, grid, volume_colors, kidx, blocks, last, bind>>

SerialMerge ==
    /\ pc = "main" /\ Len(batch.files) > 1 /\ batch.workers <= 1
    /\ IsHeld
    /\ merge_held
    /\ pc' = IF batch.pos = Len(batch.files) THEN "save" ELSE pc
    /\ UNCHANGED <<proc, nodes, root, parts, model, pose, pidx, warned, skin, solid,
                   sorted_parts, grid, volume_colors, kidx, blocks, last, bind>>

\* Single file: success, updates = process_skin(files_to_process[0], ...)
SingleCall(job(_, _)) ==
    /\ pc = "main" /\ Len(batch.files) = 1
    /\ ~IsHeld /\ batch.pos = 1
    /\ call_in_process(job)
    /\ UNCHANGED <<proc, nodes, root, parts, model, pose, pidx, warned, skin, solid,
                   sorted_parts, grid, volume_colors, kidx, blocks, last, bind>>

SingleMerge ==
    /\ pc = "main" /\ Len(batch.files) = 1
    /\ IsHeld
    /\ merge_held
    /\ pc' = "save"
    /\ UNCHANGED <<proc, nodes, root, parts, model, pose, pidx, warned, skin, solid,
                   sorted_parts, grid, volume_colors, kidx, blocks, last, bind>>

\* full_cache[target_palette] = current_cache; save_cache_to_disk; the
\* "Batch Complete" line with success_count.
SaveCache ==
    /\ pc = "save"
    /\ last' = [op |-> "Batch Complete", p |-> batch.success_count,
                c |-> Len(batch.files)]
    /\ pc' = "exit"
    /\ UNCHANGED <<proc, batch, nodes, root, parts, model, pose, pidx, warned, skin,
                   solid, sorted_parts, grid, volume_colors, kidx, blocks, bind>>

Opaque(n) == <<n, n, n, 255>>

\* The batch with process_skin as it is.
BatchFiles == {[loads |-> l, colors |-> {Opaque(1)}] : l \in BOOLEAN}

BatchPoses == {"standing", "sword_charge_diamond", "bow_aim"}

NextBatch ==
    \/ PoolMap(process_skin) \/ PoolCollect
    \/ SerialCall(process_skin) \/ SerialMerge
    \/ SingleCall(process_skin) \/ SingleMerge
    \/ SaveCache

SpecBatch == InitBatch(BatchFiles, BatchPoses, {EmptyDict}) /\ [][NextBatch]_vars

\* The batch with jobs that reach the colour matching.
CacheFiles ==
    {[loads |-> TRUE, colors |-> cs] :
        cs \in {{Opaque(1)}, {Opaque(1), Opaque(2)}, {Opaque(3)}}}

CacheDicts == {EmptyDict, [c \in {Opaque(1)} |-> match_bulk(c)]}

NextCache ==
    \/ PoolMap(process_skin_matching) \/ PoolCollect
    \/ SerialCall(process_skin_matching) \/ SerialMerge
    \/ SingleCall(process_skin_matching) \/ SingleMerge
    \/ SaveCache

SpecCache == InitBatch(CacheFiles, {"standing"}, CacheDicts) /\ [][NextCache]_vars

(***************************************************************************)
(* Properties of the batch.                                                *)
(***************************************************************************)
\* Whether the processing of a file under a pose name meets a failure:
\* the skin does not load, the item cannot be built, or the rasterize call
\* cannot be made.
Fails(file, pose_name) ==
    \/ ~file.loads
    \/ item_type(pose_name) # "None"
    \/ ~({"parts", "skin", "solid", "return_raw"} \subseteq RasterizeParams)

\* C16: no exception leaves process_skin, so main never stops early; a job
\* that meets a failure returns False; at the end every input has been
\* processed and the reported count is the number of jobs that returned
\* True.
C16_FailureIsolation ==
    /\ pc # "crashed"
    /\ \A i \in 1..Len(batch.results) :
          /\ ~batch.results[i].raised
          /\ Fails(batch.files[i], batch.pose_name)
                => ~batch.results[i].success
    /\ pc = "exit" =>
          /\ Len(batch.results) = Len(batch.files)
          /\ last.op = "Batch Complete"
          /\ last.c = Len(batch.files)
          /\ last.p = Cardinality({i \in 1..Len(batch.results) :
                                      batch.results[i].success})

\* The count half of it, which also holds when jobs succeed.
ReportedCountIsTrueCount ==
    pc = "exit" =>
        /\ Len(batch.results) = Len(batch.files)
        /\ last.p = Cardinality({i \in 1..Len(batch.results) :
                                    batch.results[i].success})

\* A batch has ended in which the first input did not load, a later one
\* loaded and failed after that, and all were processed.
C16_Witness ==
    /\ pc = "exit"
    /\ Len(batch.files) >= 2
    /\ ~batch.files[1].loads
    /\ \E i \in 2..Len(batch.files) : batch.files[i].loads
    /\ Len(batch.results) = Len(batch.files)
    /\ \A i \in 1..Len(batch.results) : ~batch.results[i].success

JobWritesIntoCallerCache ==
    /\ (pc = "main" /\ IsHeld) =>
          batch.current_cache = update(batch.at_call, batch.held.updates)
    /\ pc = "collect" =>
          \A i \in batch.pos..Len(batch.results) :
              \A k \in DOMAIN batch.results[i].updates :
                  k \in DOMAIN batch.current_cache =>
                      \/ k \in DOMAIN batch.at_call
                      \/ \E j \in 1..(batch.pos - 1) :
                            k \in DOMAIN batch.results[j].updates

(***************************************************************************)
(* Properties of the overlay parts.                                        *)
(***************************************************************************)
\* The rig's base parts with their overlay parts.
LayerPairs ==
    {<<HeadId, HatId>>, <<BodyId, JacketId>>, <<RightArmId, RightSleeveId>>,
     <<LeftArmId, LeftSleeveId>>, <<RightLegId, RightPantsId>>,
     <<LeftLegId, LeftPantsId>>}

\* The voxels whose centre is inside the world box of part p, for a part
\* that is not rotated.
BoxVoxels(h, p) ==
    LET box == get_aabb_world(h, p)
    IN  {<<x, y, z>> : x \in (box[1][1] \div K)..(box[2][1] \div K - 1),
                       y \in (box[1][2] \div K)..(box[2][2] \div K - 1),
                       z \in (box[1][3] \div K)..(box[2][3] \div K - 1)}

RestPoseDone == pc = "done" /\ pose = POSES.default

\* The voxels inside the box of base part b that do not have the colour c.
Recoloured(b, c) ==
    {vx \in BoxVoxels(nodes, b) : volume_colors[flat_index(grid, vx)] # c}

\* C18: in the rest pose, with every part's texture region opaque, every
\* voxel inside a base part's box has the base part's colour at the end of
\* rasterize: its overlay colours only the shell around the box.
C18_OverlaySurrounds ==
    (RestPoseDone /\ skin = TintedSkin(model)) =>
        \A pair \in LayerPairs : Recoloured(pair[1], Tint(pair[1])) = {}

\* What the code does: the hat, 10 x 10 x 10 around the 8 x 8 x 8 head,
\* colours every voxel of its box whose nearest hat face maps it into the
\* face's 8 x 8 rectangle, the head's voxels among them, and every voxel
\* inside a base box that lost the base colour has an overlay's colour.
OverlayRecoloursBase ==
    (RestPoseDone /\ skin = TintedSkin(model)) =>
        /\ volume_colors[flat_index(grid, <<-4, 25, -4>>)] = Tint(HatId)
        /\ volume_colors[flat_index(grid, <<0, 27, 0>>)] = Tint(HatId)
        /\ \A pair \in LayerPairs :
              \A vx \in Recoloured(pair[1], Tint(pair[1])) :
                  \E o \in LayerPairs :
                      volume_colors[flat_index(grid, vx)] = Tint(o[2])

\* The faces in whose outermost layer (less than one block from the face)
\* the local point l of a box of the given size lies.
OuterLayers(size, l) ==
    {k \in {"left", "right", "bottom", "top", "front", "back"} :
        (CASE k = "left" -> l[1] [] k = "right" -> size[1] - l[1]
           [] k = "bottom" -> l[2] [] k = "top" -> size[2] - l[2]
           [] k = "front" -> l[3] [] k = "back" -> size[3] - l[3]) < K}

\* The position of l on face k: columns along the face's texture u axis,
\* rows along its v axis, counted from 0.
FacePosition(size, k, l) ==
    <<(IF k \in {"left", "right"} THEN l[3] ELSE l[1]) \div K,
      (IF k \in {"top", "bottom"} THEN l[3] ELSE size[2] - l[2]) \div K>>

\* The voxels of the grid with their local points in the overlay box of the
\* layer scenes, for the voxels inside that box and outside the other boxes.
OverlayOnlyPoints ==
    LET inv(p) == linalg_inv(get_world_matrix(nodes, p))
        inside(p, vx) == in_mask(nodes[p].size, local_point(inv(p), vx))
    IN  {<<vx, local_point(inv(OverlayId), vx)>> :
            vx \in {v \in {flat_point(grid, i) : i \in 1..total_voxels(grid)} :
                       /\ inside(OverlayId, v)
                       /\ ~inside(BaseId, v) /\ ~inside(OtherId, v)}}

LayerSceneDone ==
    /\ pc = "done" /\ skin = PixelSkin
    /\ Len(nodes) = OtherId /\ nodes[OverlayId].is_overlay

\* C19: on the overlay box (two units larger than its texture faces), the
\* voxel at position (i + 1, j + 1) of a face's outermost layer has the
\* colour of the face's texture pixel (i, j), and the voxels of the edges
\* and corners of the box (the one-unit border of every face) are empty.
C19_OverlayCentred ==
    LayerSceneDone =>
        \A e \in OverlayOnlyPoints :
            LET part == nodes[OverlayId]
                layers == OuterLayers(part.size, e[2])
                colour == volume_colors[flat_index(grid, e[1])]
            IN  /\ Cardinality(layers) >= 2 => colour[4] = 0
                /\ \A k \in layers :
                      Cardinality(layers) = 1 =>
                          LET pos == FacePosition(part.size, k, e[2])
                          IN  colour = skin_data(skin,
                                          part.uv_map[k][1] + pos[1] - 1,
                                          part.uv_map[k][2] + pos[2] - 1)

\* What the code does: texture pixel (i, j) of a face is rendered at face
\* position (i, j) of the larger box, in every layer below the face for
\* which that face is the nearest; positions beyond the face's rectangle
\* are left empty.
OverlayAnchoredAtCorner ==
    LayerSceneDone =>
        \A e \in OverlayOnlyPoints :
            LET part == nodes[OverlayId]
                k == face_key(face_index(part.size, e[2]))
                pos == FacePosition(part.size, k, e[2])
                rect == part.uv_map[k]
                colour == volume_colors[flat_index(grid, e[1])]
            IN  IF pos[1] < rect[3] /\ pos[2] < rect[4]
                THEN colour = skin_data(skin, rect[1] + pos[1], rect[2] + pos[2])
                ELSE colour[4] = 0

(***************************************************************************)
(* rasterize with a part of empty or negative size.                        *)
(***************************************************************************)
\* The loop over sorted_parts from part k on: the final volume_colors, or
\* the exception that ends the call.
RECURSIVE raster_parts(_, _, _, _, _, _)
raster_parts(h, sp, k, sk, g, vol) ==
    IF k > Len(sp)
    THEN [exc |-> "none", vol |-> vol]
    ELSE LET r == raster_part(h, sp[k], sk, g, vol)
         IN  IF r.exc = "none" THEN raster_parts(h, sp, k + 1, sk, g, r.vol) ELSE r

\* Rasterizer.rasterize(ps, sk, solid=sol) as one call: the list returned,
\* or the exception raised.
rasterize(h, ps, sk, sol) ==
    LET g == grid_ranges(h, ps)
        r == raster_parts(h, sort_parts(h, ps), 1, sk, g,
                          array([i \in 1..total_voxels(g) |-> Transparent]))
    IN  IF r.exc = "none"
        THEN [exc |-> "none", blocks |-> pixel_blocks(r.vol, g, sol)]
        ELSE [exc |-> r.exc, blocks |-> <<>>]

ThinId == RootId + 2

\* A 2x2x2 box at the origin and, after it in the list, a part of the given
\* size, origin and rotation with its own box-UV layout; both under the root.
DegenerateScene(size, origin, rotation) ==
    LET h1 == Node(<<>>, "root", None)
        h2 == BoxPart(h1, "Base", V3(2, 2, 2), _create_box_uv(0, 0, 2, 2, 2),
                      1, FALSE)
        h3 == BoxPart(h2, "Thin", V3(size[1], size[2], size[3]),
                      _create_box_uv(16, 0, size[1], size[2], size[3]), 1, FALSE)
    IN  [set_origin(h3, ThinId, origin) EXCEPT ![ThinId].rotation = rotation]

DegenerateSizes ==
    {<<0, 2, 2>>, <<2, 0, 2>>, <<2, 2, 0>>, <<0, 0, 0>>, <<-1, 2, 2>>, <<2, -2, 0>>}

\* Origins on the block grid and half a block off it.
DegenerateOrigins ==
    {V3(0, 0, 0), V3(1, -1, 2), <<K \div 2, 0, 0>>, <<0, K + K \div 2, 0>>,
     <<0, 0, -(K \div 2)>>, <<K \div 2, K \div 2, K \div 2>>}

DegenerateScenes ==
    {DegenerateScene(s, o, r) :
        s \in DegenerateSizes, o \in DegenerateOrigins,
        r \in {<<0, 0, 0>>, <<0, 0, 90>>, <<90, 0, 0>>}}

InitDegenerate ==
    /\ nodes \in DegenerateScenes
    /\ root = 1 /\ parts = BoxParts(nodes) /\ model = "classic"
    /\ bind = nodes
    /\ pose = <<>> /\ pidx = 1 /\ warned = <<>>
    /\ skin = NoSkin /\ solid = FALSE
    /\ RasterIdle
    /\ last = NoCall /\ batch = NoBatch /\ proc = NoProc
    /\ pc = "posed"

NextDegenerate ==
    \/ RasterBegin({PixelSkin}, {parts})
    \/ RasterPart \/ RasterExtract

SpecDegenerate == InitDegenerate /\ [][NextDegenerate]_vars

(***************************************************************************)
(* Degenerate parts.                                                       *)
(***************************************************************************)
\* A part whose size is <= 0 in some dimension.
Degenerate(h, p) == \E c \in 1..3 : h[p].size[c] <= 0

\* The call has ended on a list with a degenerate part.
DegenerateCallEnded ==
    /\ pc \in {"done", "raised"} /\ skin # NoSkin
    /\ \E k \in 1..Len(parts) : Degenerate(nodes, parts[k])

\* The result of the call on the list without its degenerate parts.
WithoutDegenerate ==
    rasterize(nodes, SelectSeq(parts, LAMBDA p : ~Degenerate(nodes, p)), skin, solid)

\* C20: a part whose size is <= 0 in some dimension adds no voxel to the
\* result of rasterize, for every origin and rotation: the call returns
\* exactly the blocks it returns for the list without that part.
C20_DegenerateContributesNothing ==
    DegenerateCallEnded =>
        /\ pc = "done"
        /\ SeqSet(blocks) = SeqSet(WithoutDegenerate.blocks)

\* The voxels of the grid whose centre is in the mask of the part p.
MaskVoxels(h, p, g) ==
    LET inv == linalg_inv(get_world_matrix(h, p))
    IN  {i \in 1..total_voxels(g) :
            in_mask(h[p].size, local_point(inv, flat_point(g, i)))}

\* What the code does: with an opaque texture, a degenerate part leaves
\* the result as if it were absent exactly when no voxel centre is within
\* epsilon of its (flat) box, which is so for a negative size and for a
\* part lying on the block grid; a flat part through voxel centres colours
\* those voxels or ends the call with ValueError.
DegenerateOffCentresOnly ==
    DegenerateCallEnded =>
        ((pc = "done" /\ SeqSet(blocks) = SeqSet(WithoutDegenerate.blocks))
            <=> \A k \in 1..Len(parts) :
                    Degenerate(nodes, parts[k])
                        => MaskVoxels(nodes, parts[k], grid) = {})

\* A flat part through voxel centres has added blocks of its own colours.
DegenerateAddsBlocks ==
    /\ pc = "done" /\ nodes[ThinId].size = V3(0, 2, 2)
    /\ \E n \in 1..Len(blocks) : blocks[n].b = Tint(2)[3] /\ blocks[n].a = 255

\* A flat part through voxel centres has ended the call with ValueError.
DegenerateRaises ==
    pc = "raised" /\ \E k \in 1..Len(parts) : Degenerate(nodes, parts[k])

(***************************************************************************)
(* Two rigs built by two calls of create_rig, each given the same named    *)
(* pose, in any order of the four calls.                                   *)
(***************************************************************************)
\* The heap after the next statement of the create_rig call that builds
\* its rig in the objects base + 1, base + 2, ...: the call's local
\* variables (root, body_joint, ...) are those objects.  The variant
\* resolves them in the first rig ever built: a variant used to test the
\* claims.
create_rig_next_shared(h, base, model_type) ==
    LET st == rig_statements(model_type)[Len(h) - base + 1]
        h1 == IF st.cls = "Node"
              THEN Node(h, st.name, st.parent)
              ELSE BoxPart(h, st.name, st.size, st.uv_map, st.parent,
                           st.is_overlay)
    IN  IF st.assigns THEN set_origin(h1, Len(h1), st.origin) ELSE h1

create_rig_next(h, base, model_type) ==
    LET st == rig_statements(model_type)[Len(h) - base + 1]
        parent == IF st.parent = None THEN None ELSE base + st.parent
        h1 == IF st.cls = "Node"
              THEN Node(h, st.name, parent)
              ELSE BoxPart(h, st.name, st.size, st.uv_map, parent,
                           st.is_overlay)
    IN  IF st.assigns THEN set_origin(h1, Len(h1), st.origin) ELSE h1

\* The number of objects of one rig.
RigSize == Len(rig_statements("classic"))

\* The roots of the rigs that create_rig has returned.
RigRoots == {b + RootId : b \in {0, RigSize} \cap 0..(Len(nodes) - RigSize)}

NoPosing == [op |-> "apply_pose", p |-> <<>>, c |-> "none"]

InitTwoRigs ==
    /\ model \in Models
    /\ nodes = <<>> /\ root = None /\ parts = <<>> /\ bind = <<>>
    /\ pose = <<>> /\ pidx = 1 /\ warned = <<>>
    /\ skin = NoSkin /\ solid = FALSE
    /\ RasterIdle
    /\ last = NoPosing /\ batch = NoBatch /\ proc = NoProc
    /\ pc = "rigs"

\* rig = RigFactory.create_rig(model), statement by statement, for the
\* first rig and for a second one; root and parts are the Rig returned.
NewRigStep ==
    /\ pc = "rigs" /\ Len(nodes) < 2 * RigSize
    /\ LET base == (Len(nodes) \div RigSize) * RigSize
       IN  /\ nodes' = create_rig_next(nodes, base, model)
           /\ IF Len(nodes) + 1 = base + RigSize
              THEN /\ root' = base + RootId
                   /\ parts' = [i \in 1..Len(priority_parts) |->
                                   base + priority_parts[i]]
              ELSE UNCHANGED <<root, parts>>
    /\ UNCHANGED <<proc, batch, model, pose, pidx, warned, skin, solid, sorted_parts,
                   grid, volume_colors, kidx, blocks, last, bind, pc>>

\* PoseApplicator.apply_pose(rig, PoseApplicator.get_pose(name)) on a rig
\* that has had no pose yet; last.p lists the roots of the rigs posed and
\* last.c is the name they were posed with.
PoseRig ==
    /\ pc = "rigs" /\ Len(nodes) % RigSize = 0
    /\ \E r \in RigRoots, name \in DOMAIN POSES :
          /\ ~InSeq(r, last.p)
          /\ last.c = "none" \/ last.c = name
          /\ pose' = get_pose(name)
          /\ nodes' = apply_pose(nodes, r, get_pose(name))
          /\ last' = [last EXCEPT !.p = Append(@, r), !.c = name]
    /\ UNCHANGED <<proc, batch, root, parts, model, pidx, warned, skin, solid,
                   sorted_parts, grid, volume_colors, kidx, blocks, bind, pc>>

NextTwoRigs == NewRigStep \/ PoseRig

SpecTwoRigs == InitTwoRigs /\ [][NextTwoRigs]_vars

(***************************************************************************)
(* Pose determinism.                                                       *)
(***************************************************************************)
\* What the world matrix of node n is computed from: the origin and the
\* rotation of its ancestors from the root down, then its own.
WorldInputs(h, n) ==
    LET chain == AncestorChain(h, n)
    IN  [i \in 1..Len(chain) |->
            <<h[chain[i]].name, h[chain[i]].origin, h[chain[i]].rotation>>]

RightAngles(h, n) ==
    \A i \in 1..Len(AncestorChain(h, n)) :
        \A c \in 1..3 : h[AncestorChain(h, n)[i]].rotation[c] % 90 = 0

BothPosed == pc = "rigs" /\ Len(last.p) = 2

\* C21: two rigs built by two calls of create_rig(model) and given the
\* same catalog pose have, node for node, the same world matrix: the same
\* chain of origins and rotations from the root down, and (computed, for
\* the poses with right angles) the same product.
C21_PoseDeterminism ==
    BothPosed =>
        \A n \in 1..RigSize :
            /\ Len(nodes) = 2 * RigSize
            /\ nodes[n].name = nodes[RigSize + n].name
            /\ WorldInputs(nodes, n) = WorldInputs(nodes, RigSize + n)
            /\ RightAngles(nodes, n) =>
                  get_world_matrix(nodes, n) = get_world_matrix(nodes, RigSize + n)

\* C21 witness: both rigs carry a pose that moves the body joint, the
\* first one was posed before the second was built, and the head's world
\* matrix is not the bind one.
C21_Witness ==
    /\ BothPosed /\ last.c = "flying" /\ last.p = <<RootId, RigSize + RootId>>
    /\ get_world_matrix(nodes, RigSize + HeadId)
          # multiply_matrix(translation_matrix(0, 12 * K, 0),
                            multiply_matrix(translation_matrix(0, 12 * K, 0),
                                            translation_matrix(-4 * K, 0, -4 * K)))

(***************************************************************************)
(* process_skin for one file (main.py).  A pose name is the sequence of    *)
(* the pieces of its text, every "_" and ".json" being a piece of its own: *)
(* "sword_charge_diamond" is <<"sword", "_", "charge", "_", "diamond">>.   *)
(***************************************************************************)
\* The text of a catalog key.
Text(key) ==
    CASE key = "t_pose" -> <<"t", "_", "pose">>
      [] key = "sitting_zombie" -> <<"sitting", "_", "zombie">>
      [] key = "sitting_relaxed" -> <<"sitting", "_", "relaxed">>
      [] key = "bow_aim" -> <<"bow", "_", "aim">>
      [] key = "sword_charge" -> <<"sword", "_", "charge">>
      [] key = "hero_landing" -> <<"hero", "_", "landing">>
      [] OTHER -> <<key>>

\* str.startswith and str.endswith
startswith(s, prefix) ==
    Len(s) >= Len(prefix) /\ SubSeq(s, 1, Len(prefix)) = prefix

endswith(s, suffix) ==
    /\ Len(s) >= Len(suffix)
    /\ SubSeq(s, Len(s) - Len(suffix) + 1, Len(s)) = suffix

\* str.split('_'): the list of the texts between the separators.
RECURSIVE split(_)
split(s) ==
    IF \A i \in 1..Len(s) : s[i] # "_" THEN <<s>>
    ELSE LET i == SetMin({j \in 1..Len(s) : s[j] = "_"})
         IN  <<SubSeq(s, 1, i - 1)>> \o split(SubSeq(s, i + 1, Len(s)))

\* pose_key in PoseApplicator.POSES, and the key itself.
in_POSES(s) == \E key \in DOMAIN POSES : Text(key) = s

key_of(s) == CHOOSE key \in DOMAIN POSES : Text(key) = s

\* PoseApplicator.get_standing_pose
get_standing_pose == POSES["default"]

\* The dict json.load returns for the pose file of the runs.
FilePose == << <<"HeadJoint", [rot |-> [y |-> 90]]>> >>

\* A material text as the string handed to create_sword.
material_string(s) == IF Len(s) = 1 THEN s[1] ELSE ""

\* "Determine Pose and Item" and "Get Pose Data" of process_skin with the
\* fallback indexing the catalog by pose_key: a variant used to test the
\* claims.
resolve_pose_indexed(pose_name, exists) ==
    LET sword == startswith(pose_name, <<"sword", "_", "charge">>)
        bow == ~sword /\ pose_name = <<"bow", "_", "aim">>
        pose_key == IF sword THEN <<"sword", "_", "charge">> ELSE pose_name
    IN  [pose_key |-> pose_key,
         item_type |-> IF sword THEN "sword" ELSE IF bow THEN "bow" ELSE "None",
         item_material |-> "None",
         pose_data |-> IF in_POSES(pose_key) THEN POSES[key_of(pose_key)]
                       ELSE <<>>,
         exc |-> IF in_POSES(pose_key) \/ pose_key = <<"debug", "_", "all">>
                 THEN "none" ELSE "KeyError"]

\* "Determine Pose and Item" and "Get Pose Data" of process_skin: pose_key,
\* item_type, item_material and pose_data ("None" is Python's None); exists
\* is os.path.exists(pose_key).
resolve_pose(pose_name, exists) ==
    LET sword == startswith(pose_name, <<"sword", "_", "charge">>)
        bow == ~sword /\ pose_name = <<"bow", "_", "aim">>
        pts == split(pose_name)
        pose_key == IF sword THEN <<"sword", "_", "charge">> ELSE pose_name
    IN  [pose_key |-> pose_key,
         item_type |-> IF sword THEN "sword" ELSE IF bow THEN "bow" ELSE "None",
         item_material |->
            IF sword
            THEN (IF Len(pts) > 2 THEN material_string(pts[3]) ELSE "iron")
            ELSE "None",
         pose_data |->
            IF pose_key = <<"debug", "_", "all">> THEN <<>>
            ELSE IF in_POSES(pose_key) THEN get_pose(key_of(pose_key))
            ELSE IF endswith(pose_key, <<".json">>) /\ exists THEN FilePose
            ELSE get_standing_pose,
         exc |-> "none"]

\* sorted(PoseApplicator.POSES.keys())
sorted_POSES_keys ==
    <<"bow_aim", "default", "facepalm", "flying", "hero_landing", "pointing",
      "running", "shrug", "sitting", "sitting_relaxed", "sitting_zombie",
      "sneaking", "sword_charge", "t_pose", "walking", "waving", "zombie">>

\* poses_to_render: the tuples (name, pose data, item, material).
poses_to_render(pose_name, r) ==
    IF r.pose_key = <<"debug", "_", "all">>
    THEN [i \in 1..Len(sorted_POSES_keys) |->
             LET name == sorted_POSES_keys[i]
             IN  [name |-> Text(name), data |-> get_pose(name),
                  item |-> IF name = "sword_charge" THEN "sword"
                           ELSE IF name = "bow_aim" THEN "bow" ELSE "None",
                  mat |-> IF name = "sword_charge" THEN "iron" ELSE "None"]]
         \o [i \in 1..5 |->
                LET mat == <<"wood", "stone", "gold", "diamond", "netherite">>[i]
                IN  [name |-> <<"sword", "_", "charge", "_", mat>>,
                     data |-> get_pose("sword_charge"),
                     item |-> "sword", mat |-> mat]]
    ELSE <<[name |-> pose_name, data |-> r.pose_data, item |-> r.item_type,
            mat |-> r.item_material]>>

\* find_node(n, target): the first node named target in depth-first order,
\* None when there is none.
find_node(h, n, target) ==
    LET order == traverse(h, n)
        hits == {i \in 1..Len(order) : h[order[i]].name = target}
    IN  IF hits = {} THEN None ELSE order[SetMin(hits)]

\* The pose names of the runs: the catalog keys, the gallery, sword poses
\* with a material, names that are no key, and a pose file.
PoseNameInputs ==
    {Text(key) : key \in DOMAIN POSES}
        \cup {<<"debug", "_", "all">>,
              <<"sword", "_", "charge", "_", "diamond">>,
              <<"sword", "_", "charge", "_", "obsidian">>,
              <<"sword", "_", "charge", "s">>,
              <<"dance">>, <<"T", "_", "pose">>, <<"bow", "_", "aim", "_", "2">>,
              <<"my", "_", "pose", ".json">>}

\* process_skin is called for a file that loads or not, with a pose name;
\* the pose file named exists or not.
InitProcess ==
    /\ model \in Models
    /\ nodes = <<>> /\ root = None /\ parts = <<>> /\ bind = <<>>
    /\ pose = <<>> /\ pidx = 1 /\ warned = <<>>
    /\ skin = NoSkin /\ solid = FALSE
    /\ RasterIdle
    /\ last = NoCall /\ batch = NoBatch
    /\ proc \in {[pose_name |-> nm, loads |-> l, exists |-> e,
                  to_render |-> <<>>, idx |-> 0, base |-> 0,
                  history |-> <<>>, matched |-> 0, saves |-> 0,
                  exc |-> "none", ret |-> "none"]
                    : nm \in PoseNameInputs, l \in BOOLEAN, e \in BOOLEAN}
    /\ pc = "process_skin"

\* skin_img = SkinLoader.load_skin(input_path), and the return of
\* (False, {}) when it raises.
ProcLoadSkin ==
    /\ pc = "process_skin"
    /\ IF proc.loads
       THEN /\ pc' = "resolve"
            /\ proc' = proc
       ELSE /\ pc' = "returned"
            /\ proc' = [proc EXCEPT !.ret = "False"]
    /\ UNCHANGED <<batch, nodes, root, parts, model, pose, pidx, warned, skin,
                   solid, sorted_parts, grid, volume_colors, kidx, blocks,
                   last, bind>>

\* From "Determine Pose and Item" to the start of the loop over
\* poses_to_render; an exception goes to the outer except clause, which
\* returns (False, local_cache_updates).
ProcResolve ==
    /\ pc = "resolve"
    /\ LET r == resolve_pose(proc.pose_name, proc.exists)
       IN  IF r.exc = "none"
           THEN /\ proc' = [proc EXCEPT
                               !.to_render = poses_to_render(proc.pose_name, r),
                               !.idx = 1, !.base = Len(nodes)]
                /\ pc' = "create_rig"
           ELSE /\ proc' = [proc EXCEPT !.exc = r.exc, !.ret = "False"]
                /\ pc' = "returned"
    /\ UNCHANGED <<batch, nodes, root, parts, model, pose, pidx, warned, skin,
                   solid, sorted_parts, grid, volume_colors, kidx, blocks,
                   last, bind>>

\* An entry of the history: the operation, the rig it was given (its root)
\* and the index of the pose being rendered.
Did(op, rig) == [op |-> op, rig |-> rig, idx |-> proc.idx]

\* rig = RigFactory.create_rig(model_type=detected_model), statement by
\* statement; the objects of earlier rigs stay in the heap.
ProcCreateRig ==
    /\ pc = "create_rig" /\ proc.loads
    /\ nodes' = create_rig_next(nodes, proc.base, model)
    /\ IF Len(nodes) + 1 = proc.base + RigSize
       THEN /\ root' = proc.base + RootId
            /\ parts' = [i \in 1..Len(priority_parts) |->
                            proc.base + priority_parts[i]]
            /\ proc' = [proc EXCEPT
                           !.history = Append(@, Did("create_rig",
                                                     proc.base + RootId))]
            /\ pc' = "apply_pose"
       ELSE UNCHANGED <<root, parts, proc, pc>>
    /\ UNCHANGED <<batch, model, pose, pidx, warned, skin, solid, sorted_parts,
                   grid, volume_colors, kidx, blocks, last, bind>>

\* PoseApplicator.apply_pose(rig, p_data)
ProcApplyPose ==
    /\ pc = "apply_pose" /\ proc.loads
    /\ pose' = proc.to_render[proc.idx].data
    /\ nodes' = apply_pose(nodes, root, proc.to_render[proc.idx].data)
    /\ proc' = [proc EXCEPT !.history = Append(@, Did("apply_pose", root))]
    /\ pc' = "attach"
    /\ UNCHANGED <<batch, root, parts, model, pidx, warned, skin, solid,
                   sorted_parts, grid, volume_colors, kidx, blocks, last, bind>>

\* "Attach Items": parts = rig.get_parts() and the if / elif on p_item.
ProcAttachItem ==
    /\ pc = "attach" /\ proc.loads
    /\ LET p == proc.to_render[proc.idx]
           hand_node == find_node(nodes, root, "RightArmJoint")
           r == IF p.item = "sword" /\ hand_node # None
                THEN create_sword(nodes, p.mat, hand_node)
                ELSE IF p.item = "bow" /\ hand_node # None
                THEN create_bow(nodes, hand_node)
                ELSE [exc |-> "none", heap |-> nodes, parts |-> <<>>]
       IN  IF r.exc = "none"
           THEN /\ nodes' = r.heap
                /\ parts' = parts \o r.parts
                /\ proc' = [proc EXCEPT
                               !.history = IF p.item = "None" THEN @
                                           ELSE Append(@, Did("attach", root))]
                /\ pc' = "rasterize"
           ELSE /\ nodes' = r.heap
                /\ parts' = parts
                /\ proc' = [proc EXCEPT !.exc = r.exc, !.ret = "False"]
                /\ pc' = "returned"
    /\ UNCHANGED <<batch, root, model, pose, pidx, warned, skin, solid,
                   sorted_parts, grid, volume_colors, kidx, blocks, last, bind>>

\* From the Rasterizer.rasterize call to the end of the loop body, and
\* after the last pose builder.save(final_output) and the return of
\* (True, local_cache_updates); an exception goes to the outer except
\* clause.
ProcRender ==
    /\ pc = "rasterize" /\ proc.loads
    /\ LET exc == rasterize_call([parts |-> parts, skin |-> skin,
                                  solid |-> solid, return_raw |-> TRUE])
       IN  IF exc # "none"
           THEN /\ proc' = [proc EXCEPT !.exc = exc, !.ret = "False"]
                /\ pc' = "returned"
           ELSE IF proc.idx < Len(proc.to_render)
           THEN /\ proc' = [proc EXCEPT
                               !.history = Append(@, Did("rasterize", root)),
                               !.matched = @ + 1,
                               !.idx = @ + 1, !.base = Len(nodes)]
                /\ pc' = "create_rig"
           ELSE /\ proc' = [proc EXCEPT
                               !.history = Append(@, Did("rasterize", root)),
                               !.matched = @ + 1,
                               !.saves = @ + 1, !.ret = "True"]
                /\ pc' = "returned"
    /\ UNCHANGED <<batch, nodes, root, parts, model, pose, pidx, warned, skin,
                   solid, sorted_parts, grid, volume_colors, kidx, blocks,
                   last, bind>>

NextProcess ==
    \/ ProcLoadSkin \/ ProcResolve \/ ProcCreateRig \/ ProcApplyPose
    \/ ProcAttachItem \/ ProcRender

SpecProcess == InitProcess /\ [][NextProcess]_vars

(***************************************************************************)
(* Pose lookup.                                                            *)
(***************************************************************************)
\* The names get_pose is asked for: the catalog keys and other names.
LookupNames == DOMAIN POSES \cup {"tpose", "dance", "debug_all", ""}

Resolved == proc.loads /\ pc \notin {"process_skin", "resolve"}

\* The pose data process_skin renders for its pose name.
RenderedData == proc.to_render[1].data

\* C22 as stated: get_pose returns the catalog entry for a key and the
\* empty map for every other name, and process_skin renders every pose
\* name that is neither a catalog key nor an existing .json file with the
\* empty standing pose.
C22_UnknownNamesStand ==
    /\ \A name \in LookupNames :
          get_pose(name) = IF name \in DOMAIN POSES THEN POSES[name] ELSE <<>>
    /\ Resolved =>
          /\ proc.exc = "none" \/ pc # "returned" \/ Len(proc.history) > 0
          /\ (/\ ~in_POSES(proc.pose_name)
              /\ ~(endswith(proc.pose_name, <<".json">>) /\ proc.exists))
                => RenderedData = <<>>

\* C22, amended: the same, for the pose names that are not "debug_all" and
\* do not start with "sword_charge"; a name that starts with "sword_charge"
\* is rendered with the catalog's sword_charge pose, whatever follows.
C22_UnknownNamesStandAmended ==
    /\ \A name \in LookupNames :
          get_pose(name) = IF name \in DOMAIN POSES THEN POSES[name] ELSE <<>>
    /\ Resolved =>
          /\ proc.exc = "none" \/ pc # "returned" \/ Len(proc.history) > 0
          /\ (/\ ~in_POSES(proc.pose_name)
              /\ ~(endswith(proc.pose_name, <<".json">>) /\ proc.exists)
              /\ ~startswith(proc.pose_name, <<"sword", "_", "charge">>))
                => /\ Len(proc.to_render) = 1 => RenderedData = <<>>
                   /\ Len(proc.to_render) > 1
                         => proc.pose_name = <<"debug", "_", "all">>
          /\ startswith(proc.pose_name, <<"sword", "_", "charge">>)
                => RenderedData = POSES["sword_charge"]

\* C22 witness: a name with the spelling of no catalog key was resolved to
\* the standing pose, and so was the name of a pose file that does not
\* exist.
C22_Witness ==
    /\ Resolved /\ RenderedData = <<>>
    /\ proc.pose_name \in {<<"T", "_", "pose">>, <<"my", "_", "pose", ".json">>}

(***************************************************************************)
(* The loop over poses_to_render.                                          *)
(***************************************************************************)
\* The operations done for pose i, in the order they were done: the
\* operation names, and the rigs they were given.
OpsOf(i) == SelectSeq(proc.history, LAMBDA d : d.idx = i)

OpNames(i) == [k \in 1..Len(OpsOf(i)) |-> OpsOf(i)[k].op]

RigsOf(i) == {OpsOf(i)[k].rig : k \in 1..Len(OpsOf(i))}

\* What the loop body does for entry e of poses_to_render when nothing
\* raises.
FullOrder(e) ==
    IF e.item = "None" THEN <<"create_rig", "apply_pose", "rasterize">>
    ELSE <<"create_rig", "apply_pose", "attach", "rasterize">>

ProcReturned == pc = "returned" /\ proc.loads

OrderIsKept ==
    proc.loads /\ pc # "process_skin" /\ pc # "resolve" =>
        /\ \A i \in 1..Len(proc.to_render) :
              /\ \E n \in 0..4 :
                    /\ n <= Len(FullOrder(proc.to_render[i]))
                    /\ OpNames(i) = SubSeq(FullOrder(proc.to_render[i]), 1, n)
              /\ Cardinality(RigsOf(i)) <= 1
        /\ \A i, j \in 1..Len(proc.to_render) :
              i # j => RigsOf(i) \cap RigsOf(j) = {}

\* No pose is ever rasterized and no second pose is ever begun.
NothingRendered ==
    \A k \in 1..Len(proc.history) :
        proc.history[k].op # "rasterize" /\ proc.history[k].idx = 1

(***************************************************************************)
(* The end of process_skin.                                                *)
(***************************************************************************)
\* C28 as stated: for a skin that loads and a pose name of the catalog,
\* process_skin rasterizes and colour matches every pose to render, calls
\* builder.save once and returns True.
C28_PipelineCompletes ==
    ProcReturned /\ in_POSES(proc.pose_name) =>
        /\ proc.matched = Len(proc.to_render)
        /\ proc.saves = 1
        /\ proc.ret = "True"

\* What does hold: every call for a skin that loads returns False with an
\* exception caught and builder.save not called.
AlwaysReturnsFalse ==
    ProcReturned =>
        /\ proc.ret = "False" /\ proc.exc = "TypeError"
        /\ proc.saves = 0 /\ proc.matched = 0

(***************************************************************************)
(* rasterize of one unrotated box whose faces lie on voxel centres or      *)
(* between them.                                                           *)
(***************************************************************************)
\* Origins on the block grid, half a block off it (the faces of the box
\* pass through voxel centres) and a quarter block off it.
BoundaryOrigins ==
    {V3(0, 0, 0), V3(-1, 2, 0), <<K \div 2, 0, 0>>, <<0, K \div 2, 0>>,
     <<0, 0, -(K \div 2)>>, <<K \div 2, K \div 2, K \div 2>>,
     <<K \div 4, 0, 0>>, <<-(K \div 4), K \div 4, 3 * (K \div 4)>>}

InitBoundary ==
    /\ nodes \in {BoxScene(V3(w, h, d), o) :
                     w \in Dims, h \in Dims, d \in Dims, o \in BoundaryOrigins}
    /\ root = 1 /\ parts = BoxParts(nodes) /\ model = "classic"
    /\ bind = nodes
    /\ pose = <<>> /\ pidx = 1 /\ warned = <<>>
    /\ skin = NoSkin /\ solid = FALSE
    /\ RasterIdle
    /\ last = NoCall /\ batch = NoBatch /\ proc = NoProc
    /\ pc = "posed"

NextBoundary ==
    \/ RasterBegin({PixelSkin}, {parts})
    \/ RasterPart \/ RasterExtract

SpecBoundary == InitBoundary /\ [][NextBoundary]_vars

\* The local coordinates, in the box, of the centre of the voxel of a block.
BlockLocal(b) ==
    local_point(linalg_inv(get_world_matrix(nodes, 2)), <<b.x, b.y, b.z>>)

\* The number of unit cells of the box.
BoxCells == (nodes[2].size[1] \div K) * (nodes[2].size[2] \div K)
                * (nodes[2].size[3] \div K)

BoundaryCallEnded == pc \in {"done", "raised"} /\ skin = PixelSkin

\* C23: the inside test is half open: a block is made only for a voxel
\* whose centre has local coordinates in [0, w) x [0, h) x [0, d), a centre
\* exactly on an upper face (l = size) is outside, and an unrotated opaque
\* box never yields more than w * h * d blocks.
C23_HalfOpenInside ==
    BoundaryCallEnded =>
        /\ pc = "done"
        /\ \A n \in 1..Len(blocks) :
              \A c \in 1..3 :
                 /\ BlockLocal(blocks[n])[c] >= 0
                 /\ BlockLocal(blocks[n])[c] < nodes[2].size[c]
        /\ Len(blocks) <= BoxCells

\* What the code does: the test is l >= -epsilon and l < size + epsilon, so
\* a centre exactly on a lower or on an upper face is inside, and the
\* blocks made are among the voxels so chosen (those whose texture
\* position falls outside the face's rectangle are dropped).
InsideWithinEpsilon ==
    BoundaryCallEnded /\ solid =>
        /\ pc = "done"
        /\ {<<blocks[n].x, blocks[n].y, blocks[n].z>> : n \in 1..Len(blocks)}
              \subseteq {flat_point(grid, i) : i \in MaskVoxels(nodes, 2, grid)}
        /\ \A i \in 1..total_voxels(grid) :
              i \in MaskVoxels(nodes, 2, grid)
                 <=> \A c \in 1..3 :
                        LET l == local_point(linalg_inv(get_world_matrix(nodes, 2)),
                                             flat_point(grid, i))[c]
                        IN  l >= 0 /\ l <= nodes[2].size[c]

\* A 1x1x1 box half a block off the grid along x has become two blocks,
\* the second with its centre on the upper face.
UpperFaceInside ==
    /\ pc = "done" /\ nodes[2].size = V3(1, 1, 1)
    /\ Len(blocks) = 2
    /\ \E n \in 1..Len(blocks) : BlockLocal(blocks[n])[1] = nodes[2].size[1]

(***************************************************************************)
(* The face chosen for a local point by BoxPart.get_texture_coord and by   *)
(* the face selection of Rasterizer.rasterize, on single boxes.            *)
(***************************************************************************)
\* The local points of a box at the lower face, the middle and the upper
\* face of each axis: the corners, the middles of the edges and of the
\* faces, and the centre.
FacePoints(size) ==
    {<<x, y, z>> : x \in {0, size[1] \div 2, size[1]},
                   y \in {0, size[2] \div 2, size[2]},
                   z \in {0, size[3] \div 2, size[3]}}

InitFaces ==
    /\ nodes \in {BoxScene(V3(w, h, d), V3(0, 0, 0)) :
                     w \in Dims, h \in Dims, d \in Dims}
    /\ root = 1 /\ parts = BoxParts(nodes) /\ model = "classic"
    /\ bind = nodes
    /\ pose = <<>> /\ pidx = 1 /\ warned = <<>>
    /\ skin = NoSkin /\ solid = FALSE
    /\ RasterIdle
    /\ last = NoCall /\ batch = NoBatch /\ proc = NoProc
    /\ pc = "faces"

\* part.get_texture_coord(lx, ly, lz), and what the loop body of rasterize
\* computes for a voxel whose centre is at the same local point.
ChooseFace ==
    /\ pc = "faces"
    /\ \E n \in SeqSet(parts) : \E l \in FacePoints(nodes[n].size) :
          last' = [op |-> "choose_face", p |-> n,
                   c |-> [local |-> l,
                          coord |-> get_texture_coord(nodes[n], l[1], l[2],
                                                      l[3]),
                          sample |-> sample(nodes[n], l)]]
    /\ UNCHANGED <<proc, batch, nodes, root, parts, model, pose, pidx, warned,
                   skin, solid, sorted_parts, grid, volume_colors, kidx,
                   blocks, bind, pc>>

NextFaces == ChooseFace

SpecFaces == InitFaces /\ [][NextFaces]_vars

\* The first face of the sequence order that is in the set faces.
FirstOf(order, faces) ==
    order[SetMin({i \in 1..Len(order) : order[i] \in faces})]

\* The face whose UV rectangle holds the pixel coord.
FaceOfCoord(part, coord) ==
    CHOOSE k \in DOMAIN part.uv_map :
        LET rect == part.uv_map[k]
        IN  /\ rect[1] <= coord[1] /\ coord[1] < rect[1] + rect[3]
            /\ rect[2] <= coord[2] /\ coord[2] < rect[2] + rect[4]

\* The faces the local point l lies on.
FacesOn(size, l) ==
    {k \in NearestFaces(size, l) :
        \/ (k = "left" /\ l[1] = 0) \/ (k = "right" /\ l[1] = size[1])
        \/ (k = "bottom" /\ l[2] = 0) \/ (k = "top" /\ l[2] = size[2])
        \/ (k = "front" /\ l[3] = 0) \/ (k = "back" /\ l[3] = size[3])}

Tie == /\ last.op = "choose_face"
       /\ Cardinality(NearestFaces(nodes[last.p].size, last.c.local)) >= 2

\* C24: when a local point has the same minimum distance to several faces,
\* rasterize's face selection chooses the first of them in the order top,
\* bottom, right, front, left, back, and get_texture_coord returns a pixel
\* of that same face.
C24_FixedTieBreak ==
    Tie =>
        LET part == nodes[last.p]
            first == FirstOf(<<"top", "bottom", "right", "front", "left", "back">>,
                             NearestFaces(part.size, last.c.local))
        IN  /\ face_key(last.c.sample.face) = first
            /\ last.c.coord # NoCoord
            /\ FaceOfCoord(part, last.c.coord) = first

\* What the code does: rasterize takes the first nearest face in the order
\* left, right, bottom, top, front, back (np.argmin over dists), and
\* get_texture_coord, when it returns a pixel, the first face the point
\* lies on in the order top, bottom, right, left, front, back.
TwoFaceOrders ==
    Tie =>
        LET part == nodes[last.p]
            l == last.c.local
        IN  /\ face_key(last.c.sample.face)
                  = FirstOf(<<"left", "right", "bottom", "top", "front", "back">>,
                            NearestFaces(part.size, l))
            /\ last.c.coord # NoCoord =>
                  FaceOfCoord(part, last.c.coord)
                      = FirstOf(<<"top", "bottom", "right", "left", "front", "back">>,
                                FacesOn(part.size, l))

\* For a point on the edge of the left and the top face, rasterize has
\* chosen the left face and get_texture_coord a pixel of the top face.
FacesDiffer ==
    /\ Tie
    /\ face_key(last.c.sample.face) = "left"
    /\ last.c.coord # NoCoord
    /\ FaceOfCoord(nodes[last.p], last.c.coord) = "top"

(***************************************************************************)
(* SkinGeometry.generate_blocks (geometry.py): the fixed statue, one       *)
(* process_box call per step.                                              *)
(***************************************************************************)
\* PixelBlock(x, y, z, *color, is_overlay=...) of geometry.py
LegacyPixelBlock(x, y, z, color, is_overlay) ==
    [x |-> x, y |-> y, z |-> z, r |-> color[1], g |-> color[2],
     b |-> color[3], a |-> color[4], is_overlay |-> is_overlay]

\* The arguments of a process_box call.
Box(name, u, v, w, h, d, ox, oy, oz, overlay) ==
    [name |-> name, u |-> u, v |-> v, w |-> w, h |-> h, d |-> d,
     ox |-> ox, oy |-> oy, oz |-> oz, overlay |-> overlay]

\* The process_box calls of generate_blocks, in order.
process_box_calls(model_type) ==
    <<Box("Head", 0, 0, 8, 8, 8, 4, 24, 0, FALSE),
      Box("Hat", 32, 0, 8, 8, 8, 4, 24, 0, TRUE),
      Box("Body", 16, 16, 8, 12, 4, 4, 12, 2, FALSE),
      Box("Jacket", 16, 32, 8, 12, 4, 4, 12, 2, TRUE)>>
    \o (IF model_type = "slim"
        THEN <<Box("RightArm", 40, 16, 3, 12, 4, 12, 12, 2, FALSE),
               Box("RightSleeve", 40, 32, 3, 12, 4, 12, 12, 2, TRUE),
               Box("LeftArm", 32, 48, 3, 12, 4, 1, 12, 2, FALSE),
               Box("LeftSleeve", 48, 48, 3, 12, 4, 1, 12, 2, TRUE)>>
        ELSE <<Box("RightArm", 40, 16, 4, 12, 4, 12, 12, 2, FALSE),
               Box("RightSleeve", 40, 32, 4, 12, 4, 12, 12, 2, TRUE),
               Box("LeftArm", 32, 48, 4, 12, 4, 0, 12, 2, FALSE),
               Box("LeftSleeve", 48, 48, 4, 12, 4, 0, 12, 2, TRUE)>>)
    \o <<Box("RightLeg", 0, 16, 4, 12, 4, 8, 0, 2, FALSE),
         Box("RightPants", 0, 32, 4, 12, 4, 8, 0, 2, TRUE),
         Box("LeftLeg", 16, 48, 4, 12, 4, 4, 0, 2, FALSE),
         Box("LeftPants", 0, 48, 4, 12, 4, 4, 0, 2, TRUE)>>

BoxFaces == <<"top", "bottom", "right", "front", "left", "back">>

\* (face_u, face_v, fw, fh) of the add_face call for a face of box bx.
face_rect(bx, face) ==
    CASE face = "top" -> <<bx.u + bx.d, bx.v, bx.w, bx.d>>
      [] face = "bottom" -> <<bx.u + bx.d + bx.w, bx.v, bx.w, bx.d>>
      [] face = "right" -> <<bx.u, bx.v + bx.d, bx.d, bx.h>>
      [] face = "front" -> <<bx.u + bx.d, bx.v + bx.d, bx.w, bx.h>>
      [] face = "left" -> <<bx.u + bx.d + bx.w, bx.v + bx.d, bx.d, bx.h>>
      [] face = "back" ->
            <<bx.u + bx.d + bx.w + bx.d, bx.v + bx.d, bx.w, bx.h>>

\* map_cb of the add_face call for a face of box bx.
map_cb(bx, face, fx, fy) ==
    CASE face = "top" -> <<fx, IF bx.overlay THEN bx.h ELSE bx.h - 1, fy>>
      [] face = "bottom" -> <<fx, IF bx.overlay THEN -1 ELSE 0, fy>>
      [] face = "right" ->
            <<IF bx.overlay THEN bx.w ELSE bx.w - 1, bx.h - 1 - fy, fx>>
      [] face = "front" -> <<fx, bx.h - 1 - fy, IF bx.overlay THEN -1 ELSE 0>>
      [] face = "left" -> <<IF bx.overlay THEN -1 ELSE 0, bx.h - 1 - fy, fx>>
      [] face = "back" ->
            <<fx, bx.h - 1 - fy, IF bx.overlay THEN bx.d ELSE bx.d - 1>>

\* The pixels (fx, fy) of a fw x fh rectangle at (fu, fv) with alpha > 0,
\* in the order of the two nested loops (fx outer, fy inner).
opaque_pixels(sk, fu, fv, fw, fh) ==
    SelectSeq([i \in 1..(fw * fh) |-> <<(i - 1) \div fh, (i - 1) % fh>>],
              LAMBDA q : skin_data(sk, fu + q[1], fv + q[2])[4] > 0)

\* The blocks appended by the loop over the top face at the head of
\* process_box.
top_face_loop(sk, bx) ==
    LET px == opaque_pixels(sk, bx.u + bx.d, bx.v, bx.w, bx.d)
    IN  [k \in 1..Len(px) |->
            LegacyPixelBlock(bx.ox + px[k][1],
                       bx.oy + (IF bx.overlay THEN bx.h ELSE bx.h - 1),
                       bx.oz + px[k][2],
                       skin_data(sk, bx.u + bx.d + px[k][1], bx.v + px[k][2]),
                       FALSE)]

\* The blocks appended by add_face(face_u, face_v, fw, fh, map_cb).
add_face(sk, bx, face) ==
    LET rect == face_rect(bx, face)
        px == opaque_pixels(sk, rect[1], rect[2], rect[3], rect[4])
    IN  [k \in 1..Len(px) |->
            LET l == map_cb(bx, face, px[k][1], px[k][2])
            IN  LegacyPixelBlock(bx.ox + l[1], bx.oy + l[2], bx.oz + l[3],
                           skin_data(sk, rect[1] + px[k][1], rect[2] + px[k][2]),
                           bx.overlay)]

\* The blocks appended by process_box(name, u, v, w, h, d, ox, oy, oz,
\* overlay).
process_box(sk, bx) ==
    top_face_loop(sk, bx)
        \o add_face(sk, bx, "top") \o add_face(sk, bx, "bottom")
        \o add_face(sk, bx, "right") \o add_face(sk, bx, "front")
        \o add_face(sk, bx, "left") \o add_face(sk, bx, "back")

\* The textures given to generate_blocks.
GeometrySkins ==
    {HeadRedSkin, TintedSkin("classic"), TintedSkin("slim"),
     Skin64(<<Fill(0, 0, 64, 64, Tint(1))>>),
     Skin64(<<Checker(0, 0, 64, 64, Red)>>),
     Skin64(<<Fill(0, 0, 64, 16, Red), Checker(0, 16, 64, 48, Tint(2))>>)}

\* SkinGeometry.generate_blocks(skin, model) is called.
InitGeometry ==
    /\ model \in Models
    /\ skin \in GeometrySkins
    /\ nodes = <<>> /\ root = None /\ parts = <<>> /\ bind = <<>>
    /\ pose = <<>> /\ pidx = 1 /\ warned = <<>>
    /\ solid = FALSE
    /\ sorted_parts = <<>> /\ grid = NoGrid /\ volume_colors = <<>>
    /\ kidx = 1 /\ blocks = <<>>
    /\ last = NoCall /\ batch = NoBatch /\ proc = NoProc
    /\ pc = "generate_blocks"

\* The next process_box call; kidx is the number of the call.
ProcessBox ==
    /\ pc = "generate_blocks" /\ kidx <= Len(process_box_calls(model))
    /\ blocks' = blocks \o process_box(skin, process_box_calls(model)[kidx])
    /\ kidx' = kidx + 1
    /\ UNCHANGED <<proc, batch, nodes, root, parts, model, pose, pidx, warned,
                   skin, solid, sorted_parts, grid, volume_colors, last, bind,
                   pc>>

\* return blocks
GeometryReturn ==
    /\ pc = "generate_blocks" /\ kidx > Len(process_box_calls(model))
    /\ pc' = "generated"
    /\ UNCHANGED <<proc, batch, nodes, root, parts, model, pose, pidx, warned,
                   skin, solid, sorted_parts, grid, volume_colors, kidx,
                   blocks, last, bind>>

NextGeometry == ProcessBox \/ GeometryReturn

SpecGeometry == InitGeometry /\ [][NextGeometry]_vars

\* The opaque pixels <<call, face, fx, fy>> of the faces of the boxes
\* processed so far.
OpaqueFacePixels ==
    {q \in (1..(kidx - 1)) \X (1..6) \X (0..11) \X (0..11) :
        LET rect == face_rect(process_box_calls(model)[q[1]], BoxFaces[q[2]])
        IN  /\ q[3] < rect[3] /\ q[4] < rect[4]
            /\ skin_data(skin, rect[1] + q[3], rect[2] + q[4])[4] > 0}

GeometryRunning == pc \in {"generate_blocks", "generated"}

\* C26: generate_blocks emits exactly one PixelBlock for every opaque pixel
\* of each of the six faces of every box: the number of blocks is the
\* number of those pixels, so no face, the top in particular, is emitted
\* twice.
C26_OneBlockPerPixel ==
    GeometryRunning => Len(blocks) = Cardinality(OpaqueFacePixels)

\* What the code does: every opaque pixel of a top face has two blocks (one
\* from the loop at the head of process_box, one from add_face) and every
\* opaque pixel of the other five faces has one.
TopFaceTwice ==
    GeometryRunning =>
        Len(blocks) = Cardinality(OpaqueFacePixels)
                        + Cardinality({q \in OpaqueFacePixels : q[2] = 1})

\* The call has returned with the head's top face emitted twice: 64 pixels,
\* 128 blocks on the layer y = 31.
HeadTopTwice ==
    /\ pc = "generated" /\ skin = HeadRedSkin
    /\ Cardinality({n \in 1..Len(blocks) :
                       blocks[n].y = 31 /\ ~blocks[n].is_overlay}) >= 128

(***************************************************************************)
(* The shape of the node graph.                                            *)
(***************************************************************************)
\* The node reached from n by following parent k times (None when the
\* chain of parents has ended before).
RECURSIVE ParentAfter(_, _, _)
ParentAfter(h, n, k) ==
    IF n = None \/ k = 0 THEN n ELSE ParentAfter(h, h[n].parent, k - 1)

\* Following parent from n ends at a node without parent: as the heap has
\* Len(h) nodes, it does so within Len(h) steps or never.
ReachesRoot(h, n) == ParentAfter(h, n, Len(h)) = None

Forest(h) == \A n \in 1..Len(h) : ReachesRoot(h, n)

\* C27: after any sequence of Node constructions and add_child calls, the
\* chain of parents of every node ends at a node without parent, so no
\* node is its own ancestor.
C27_StaysForest == Forest(nodes)

\* What does hold: a Node construction keeps the graph a forest, and so
\* does p.add_child(c) when c has no parent yet and is not p or an
\* ancestor of p, or is a child of p already.
ForestKeptByConstruction ==
    [][Forest(nodes) /\ (\/ last'.op = "Node"
                         \/ /\ last'.op = "add_child"
                            /\ \/ InSeq(last'.c, nodes[last'.p].children)
                               \/ /\ nodes[last'.c].parent = None
                                  /\ \A k \in 0..Len(nodes) :
                                        ParentAfter(nodes, last'.p, k) # last'.c)
            => Forest(nodes')]_vars

\* A node has become its own parent, by n.add_child(n).
OwnParent ==
    /\ last.op = "add_child" /\ last.p = last.c
    /\ nodes[last.c].parent = last.c

\* Two nodes have become each other's parent.
ParentLoop ==
    \E a, b \in 1..Len(nodes) :
        a # b /\ nodes[a].parent = b /\ nodes[b].parent = a

(***************************************************************************)
(* The layout of the rig as create_rig returns it.                         *)
(***************************************************************************)
BaseParts == {HeadId, BodyId, RightArmId, LeftArmId, RightLegId, LeftLegId}

\* Two world boxes <<min corner, max corner>> share no interior point:
\* along some axis one ends where or before the other begins.
InteriorsDisjoint(a, b) ==
    \E c \in 1..3 : a[2][c] <= b[1][c] \/ b[2][c] <= a[1][c]

\* create_rig has returned and no pose has been applied.
BindPose == pc = "rig" /\ nodes = bind

\* C29: in the rig as create_rig returns it, for both models, the world
\* boxes of the six base parts have pairwise disjoint interiors, each arm
\* spans Y from 12 to 24, the right arm begins at the body's side x = 4 and
\* the left arm ends at the body's side x = -4.
C29_BindLayout ==
    BindPose =>
        LET box(n) == get_aabb_world(nodes, n)
        IN  /\ \A a, b \in BaseParts :
                  a # b => InteriorsDisjoint(box(a), box(b))
            /\ \A a \in {RightArmId, LeftArmId} :
                  box(a)[1][2] = 12 * K /\ box(a)[2][2] = 24 * K
            /\ box(BodyId)[1][1] = -4 * K /\ box(BodyId)[2][1] = 4 * K
            /\ box(RightArmId)[1][1] = 4 * K
            /\ box(LeftArmId)[2][1] = -4 * K

\* C29 witness: create_rig has returned the slim rig, whose arms are three
\* wide and hang from joints at Y = 21.
C29_Witness ==
    /\ BindPose /\ model = "slim"
    /\ nodes[RightArmJointId].origin = V3(4, 9, 0)
    /\ get_aabb_world(nodes, RightArmId) = <<V3(4, 12, -2), V3(7, 24, 2)>>
    /\ get_aabb_world(nodes, LeftArmId) = <<V3(-7, 12, -2), V3(-4, 24, 2)>>

(***************************************************************************)
(* The pose accessors of PoseApplicator, each followed by apply_pose on a  *)
(* new rig.                                                                *)
(***************************************************************************)
\* PoseApplicator.POSES[key]: the entry, or KeyError.
POSES_item(key) ==
    IF key \in DOMAIN POSES
    THEN [exc |-> "none", value |-> POSES[key]]
    ELSE [exc |-> "KeyError", value |-> <<>>]

\* PoseApplicator.get_t_pose
get_t_pose == POSES_item("tpose")

\* The accessor calls: get_pose(name) for the names asked for,
\* get_standing_pose() and get_t_pose().
AccessorCalls ==
    {<<"get_pose", name>> : name \in LookupNames}
        \cup {<<"get_standing_pose", "">>, <<"get_t_pose", "">>}

accessor_result(call) ==
    CASE call[1] = "get_pose" -> [exc |-> "none", value |-> get_pose(call[2])]
      [] call[1] = "get_standing_pose" ->
            [exc |-> "none", value |-> get_standing_pose]
      [] call[1] = "get_t_pose" -> get_t_pose

\* PoseApplicator.apply_pose(rig, PoseApplicator.<accessor>(...)): the
\* accessor is evaluated, and apply_pose is entered when it returns.
AccessorCall ==
    /\ pc = "rig"
    /\ \E call \in AccessorCalls :
          LET r == accessor_result(call)
          IN  /\ last' = [op |-> call[1], p |-> None,
                          c |-> [name |-> call[2], exc |-> r.exc,
                                 value |-> r.value]]
              /\ IF r.exc = "none"
                 THEN pose' = r.value /\ pc' = "apply_pose"
                 ELSE pose' = pose /\ pc' = "raised"
    /\ pidx' = 1
    /\ UNCHANGED <<proc, batch, nodes, root, parts, model, warned, skin, solid,
                   sorted_parts, grid, volume_colors, kidx, blocks, bind>>

NextAccessors ==
    \/ CreateRigStep \/ CreateRigReturn
    \/ AccessorCall \/ ApplyPoseItem \/ ApplyPoseReturn

SpecAccessors == InitRig /\ [][NextAccessors]_vars

\* A pose dict that rotates RightArmJoint by z = 90 and LeftArmJoint by
\* z = -90.
TPoseEntry(d) ==
    /\ \E i \in 1..Len(d) : d[i][1] = "RightArmJoint" /\ d[i][2].rot = [z |-> 90]
    /\ \E i \in 1..Len(d) : d[i][1] = "LeftArmJoint" /\ d[i][2].rot = [z |-> -90]

\* C30: get_standing_pose returns the catalog's default (empty) pose and
\* get_t_pose returns the catalog's t_pose entry, which rotates
\* RightArmJoint by z = 90 and LeftArmJoint by z = -90; neither raises.
C30_NamedAccessors ==
    /\ last.op = "get_standing_pose" =>
          last.c.exc = "none" /\ last.c.value = POSES["default"]
                              /\ last.c.value = <<>>
    /\ last.op = "get_t_pose" =>
          /\ last.c.exc = "none"
          /\ last.c.value = POSES["t_pose"]
          /\ TPoseEntry(last.c.value)

\* What the code does: get_standing_pose returns the empty default pose;
\* get_t_pose raises KeyError, the catalog's key being "t_pose" and the
\* key it asks for "tpose"; get_pose("t_pose") returns the entry.
TPoseAccessorRaises ==
    /\ "tpose" \notin DOMAIN POSES
    /\ last.op = "get_standing_pose" =>
          last.c.exc = "none" /\ last.c.value = <<>>
    /\ last.op = "get_t_pose" =>
          last.c.exc = "KeyError" /\ pc = "raised" /\ nodes = bind
    /\ (last.op = "get_pose" /\ last.c.name = "t_pose") =>
          last.c.value = POSES["t_pose"] /\ TPoseEntry(last.c.value)

\* get_t_pose has raised and the rig is left in its bind pose.
TPoseKeyError ==
    last.op = "get_t_pose" /\ last.c.exc = "KeyError" /\ pc = "raised"

====
